---- MODULE Spec2Model ----
(***************************************************************************)
(* A model of the `conversion` crate: the Converter contract               *)
(* (convert / is_ended / finalize / size_hint), every converter of the      *)
(* crate, and the four drivers (ConvertedIterator, ConvertedTryIterator,    *)
(* ConvertedStream, ConvertedTryStream).                                    *)
(*                                                                         *)
(* Values.  Items, characters and bytes are naturals (a char is its code   *)
(* point).  Option<T> is a sequence of length 0 (None) or 1 (Some).  An     *)
(* error value is a sequence of strings: the error type's name, wrapped    *)
(* from the left by the tags of ChainedError and CombinedError.            *)
(***************************************************************************)
EXTENDS Integers, Sequences, FiniteSets, TLC

VARIABLES driver, conv, buffer, src, ret, events, pre, extra, pend, finalized,
          run, yielded, appended

vars == <<driver, conv, buffer, src, ret, events, pre, extra, pend, finalized,
          run, yielded, appended>>

-----------------------------------------------------------------------------
(* Bounds of the model *)

\* longest source sequence fed to a driver
MaxSrc == 4
\* calls made to a driver whose source is exhausted and whose buffer is empty
MaxExtra == 2
\* times an asynchronous source may answer Poll::Pending
MaxPend == 1
\* the items after the prefix of a chained run; the bytes of a raw input
MaxRest == 4
\* the characters of a round trip
MaxChars == 2
\* the items of a run over a converter of Configs
MaxRun == 3
\* the items the source of a driver called again and again holds
MaxHeld == 1

-----------------------------------------------------------------------------
(* Fixed-width integer helpers *)

RECURSIVE Pow2(_)
Pow2(k) == IF k = 0 THEN 1 ELSE 2 * Pow2(k - 1)

RECURSIVE BitAnd(_, _)
BitAnd(a, b) ==
    IF a = 0 \/ b = 0 THEN 0
    ELSE (IF a % 2 = 1 /\ b % 2 = 1 THEN 1 ELSE 0) + 2 * BitAnd(a \div 2, b \div 2)

RECURSIVE BitOr(_, _)
BitOr(a, b) ==
    IF a = 0 THEN b
    ELSE IF b = 0 THEN a
    ELSE (IF a % 2 = 1 \/ b % 2 = 1 THEN 1 ELSE 0) + 2 * BitOr(a \div 2, b \div 2)

\* u32 << k: the bits shifted past bit 31 are dropped
Shl32(a, k) == IF k = 0 THEN a ELSE (a % Pow2(32 - k)) * Pow2(k)

Shr(a, k) == a \div Pow2(k)

\* char::from_u32: Some(c) iff the value is a Unicode scalar value
IsScalar(v) == (0 <= v /\ v < 55296) \/ (57344 <= v /\ v <= 1114111)

\* u16::from_be_bytes / u16::from_le_bytes
U16FromBE(b0, b1) == b0 * 256 + b1
U16FromLE(b0, b1) == b1 * 256 + b0

\* u16::to_be_bytes / u16::to_le_bytes
U16ToBE(w) == <<w \div 256, w % 256>>
U16ToLE(w) == <<w % 256, w \div 256>>

\* u32::from_be_bytes / u32::from_le_bytes on a [u8; 4]
U32FromBE(bs) == ((bs[1] * 256 + bs[2]) * 256 + bs[3]) * 256 + bs[4]
\* a little-endian read that takes the bytes in big-endian order
U32FromLE_big_endian(bs) == ((bs[1] * 256 + bs[2]) * 256 + bs[3]) * 256 + bs[4]
U32FromLE(bs) == ((bs[4] * 256 + bs[3]) * 256 + bs[2]) * 256 + bs[1]

\* u32::to_be_bytes / u32::to_le_bytes
U32ToBE(v) == <<(v \div 16777216) % 256, (v \div 65536) % 256, (v \div 256) % 256, v % 256>>
U32ToLE(v) == <<v % 256, (v \div 256) % 256, (v \div 65536) % 256, (v \div 16777216) % 256>>

\* char::encode_utf8
EncodeUtf8(c) ==
    IF c < 128 THEN <<c>>
    ELSE IF c < 2048 THEN <<192 + (c \div 64), 128 + (c % 64)>>
    ELSE IF c < 65536 THEN <<224 + (c \div 4096), 128 + ((c \div 64) % 64), 128 + (c % 64)>>
    ELSE <<240 + (c \div 262144), 128 + ((c \div 4096) % 64),
           128 + ((c \div 64) % 64), 128 + (c % 64)>>

\* char::encode_utf16
EncodeUtf16(c) ==
    IF c < 65536 THEN <<c>>
    ELSE <<55296 + ((c - 65536) \div 1024), 56320 + ((c - 65536) % 1024)>>

-----------------------------------------------------------------------------
(* Result<usize, Error> of convert, with what the call appended to the sink *)
(* and the converter after the call; Result<(), Error> of finalize.         *)

ConvOk(self, n, out) == [ok |-> TRUE, n |-> n, err |-> <<>>, out |-> out, self |-> self]
ConvErr(self, e)     == [ok |-> FALSE, n |-> 0, err |-> e, out |-> <<>>, self |-> self]

FinOk(self)     == [ok |-> TRUE, err |-> <<>>, self |-> self]
FinErr(self, e) == [ok |-> FALSE, err |-> e, self |-> self]

\* (usize, Option<usize>)
Hint(min, max) == [min |-> min, max |-> max]

-----------------------------------------------------------------------------
(* converter/encoding/ascii.rs *)

ASCIIEncodingError == <<"ASCIIEncodingError">>

ASCIIDecoder_new == [kind |-> "ASCIIDecoder"]

ASCIIDecoder_convert(self, item) ==
    IF item <= 127 THEN ConvOk(self, 1, <<item>>)
    ELSE ConvErr(self, ASCIIEncodingError)

ASCIIDecoder_size_hint(self) == Hint(1, <<1>>)

ASCIIEncoder_new == [kind |-> "ASCIIEncoder"]

ASCIIEncoder_convert(self, item) ==
    IF item <= 127 THEN ConvOk(self, 1, <<item % 256>>)
    ELSE ConvErr(self, ASCIIEncodingError)

ASCIIEncoder_size_hint(self) == Hint(1, <<1>>)

-----------------------------------------------------------------------------
(* converter/encoding/utf32.rs *)

UTF32EncodingError == <<"UTF32EncodingError">>

UTF32Decoder_new == [kind |-> "UTF32Decoder"]

\* a decoder that takes every 32-bit value for a character
UTF32Decoder_convert_any(self, item) == ConvOk(self, 1, <<item>>)

UTF32Decoder_convert(self, item) ==
    IF IsScalar(item) THEN ConvOk(self, 1, <<item>>)
    ELSE ConvErr(self, UTF32EncodingError)

UTF32Decoder_size_hint(self) == Hint(1, <<1>>)

UTF32Encoder_new == [kind |-> "UTF32Encoder"]

UTF32Encoder_convert(self, item) == ConvOk(self, 1, <<item>>)

UTF32Encoder_size_hint(self) == Hint(1, <<1>>)

UTF32BEDecoder_new == [kind |-> "UTF32BEDecoder", bytes |-> <<0, 0, 0, 0>>, count |-> 0]

UTF32BEDecoder_convert(self, item) ==
    LET bytes == [self.bytes EXCEPT ![self.count + 1] = item]
    IN  IF self.count = 3
        THEN LET next == [self EXCEPT !.bytes = bytes, !.count = 0]
                 r    == UTF32Decoder_convert(UTF32Decoder_new, U32FromBE(bytes))
             IN  [r EXCEPT !.self = next]
        ELSE ConvOk([self EXCEPT !.bytes = bytes, !.count = self.count + 1], 0, <<>>)

UTF32BEDecoder_finalize(self) ==
    IF self.count = 0 THEN FinOk(self) ELSE FinErr(self, UTF32EncodingError)

UTF32BEDecoder_size_hint(self) == Hint(0, <<1>>)

UTF32BEEncoder_new == [kind |-> "UTF32BEEncoder"]

UTF32BEEncoder_convert(self, item) == ConvOk(self, 4, U32ToBE(item))

UTF32BEEncoder_size_hint(self) == Hint(4, <<4>>)

UTF32LEDecoder_new == [kind |-> "UTF32LEDecoder", bytes |-> <<0, 0, 0, 0>>, count |-> 0]

UTF32LEDecoder_convert(self, item) ==
    LET bytes == [self.bytes EXCEPT ![self.count + 1] = item]
    IN  IF self.count = 3
        THEN LET next == [self EXCEPT !.bytes = bytes, !.count = 0]
                 r    == UTF32Decoder_convert(UTF32Decoder_new, U32FromLE(bytes))
             IN  [r EXCEPT !.self = next]
        ELSE ConvOk([self EXCEPT !.bytes = bytes, !.count = self.count + 1], 0, <<>>)

UTF32LEDecoder_finalize(self) ==
    IF self.count = 0 THEN FinOk(self) ELSE FinErr(self, UTF32EncodingError)

UTF32LEDecoder_size_hint(self) == Hint(0, <<1>>)

UTF32LEEncoder_new == [kind |-> "UTF32LEEncoder"]

UTF32LEEncoder_convert(self, item) == ConvOk(self, 4, U32ToLE(item))

UTF32LEEncoder_size_hint(self) == Hint(4, <<4>>)

-----------------------------------------------------------------------------
(* converter/encoding/utf8.rs *)

UTF8EncodingError == <<"UTF8EncodingError">>

UTF8Decoder_new == [kind |-> "UTF8Decoder", remain |-> 0, codepoint |-> 0, lower |-> 0]

\* a classification that takes C0 and C1 for lead bytes of two-byte sequences
UTF8Decoder_first_byte_from_C0(self, item) ==
    IF item <= 127 THEN ConvOk(self, 1, <<item>>)
    ELSE IF 192 <= item /\ item <= 223
    THEN ConvOk([self EXCEPT !.remain = 1,
                             !.codepoint = Shl32(BitAnd(item, 31), 6),
                             !.lower = 128], 0, <<>>)
    ELSE IF 224 <= item /\ item <= 239
    THEN ConvOk([self EXCEPT !.remain = 2,
                             !.codepoint = Shl32(BitAnd(item, 15), 12),
                             !.lower = IF item = 224 THEN 160 ELSE 128], 0, <<>>)
    ELSE IF 240 <= item /\ item <= 244
    THEN ConvOk([self EXCEPT !.remain = 3,
                             !.codepoint = Shl32(BitAnd(item, 7), 18),
                             !.lower = IF item = 240 THEN 144 ELSE 128], 0, <<>>)
    ELSE ConvErr(self, UTF8EncodingError)

\* a classification that counts the lead byte among the bytes to come
UTF8Decoder_first_byte_counts_lead(self, item) ==
    IF item <= 127 THEN ConvOk(self, 1, <<item>>)
    ELSE IF 194 <= item /\ item <= 223
    THEN ConvOk([self EXCEPT !.remain = 2,
                             !.codepoint = Shl32(BitAnd(item, 31), 6),
                             !.lower = 128], 0, <<>>)
    ELSE IF 224 <= item /\ item <= 239
    THEN ConvOk([self EXCEPT !.remain = 3,
                             !.codepoint = Shl32(BitAnd(item, 15), 12),
                             !.lower = IF item = 224 THEN 160 ELSE 128], 0, <<>>)
    ELSE IF 240 <= item /\ item <= 244
    THEN ConvOk([self EXCEPT !.remain = 4,
                             !.codepoint = Shl32(BitAnd(item, 7), 18),
                             !.lower = IF item = 240 THEN 144 ELSE 128], 0, <<>>)
    ELSE ConvErr(self, UTF8EncodingError)

\* the arm taken when self.remain == 0
UTF8Decoder_first_byte(self, item) ==
    IF item <= 127 THEN ConvOk(self, 1, <<item>>)
    ELSE IF 194 <= item /\ item <= 223
    THEN ConvOk([self EXCEPT !.remain = 1,
                             !.codepoint = Shl32(BitAnd(item, 31), 6),
                             !.lower = 128], 0, <<>>)
    ELSE IF 224 <= item /\ item <= 239
    THEN ConvOk([self EXCEPT !.remain = 2,
                             !.codepoint = Shl32(BitAnd(item, 15), 12),
                             !.lower = IF item = 224 THEN 160 ELSE 128], 0, <<>>)
    ELSE IF 240 <= item /\ item <= 244
    THEN ConvOk([self EXCEPT !.remain = 3,
                             !.codepoint = Shl32(BitAnd(item, 7), 18),
                             !.lower = IF item = 240 THEN 144 ELSE 128], 0, <<>>)
    ELSE ConvErr(self, UTF8EncodingError)

\* (self.lower..0xBF).contains(&item): a half-open range
UTF8Decoder_in_range(lower, item) == lower <= item /\ item < 191

\* the arm taken when self.remain != 0
UTF8Decoder_continuation(self, item) ==
    LET remain == self.remain - 1
        s1     == [self EXCEPT !.remain = remain]
    IN  IF ~UTF8Decoder_in_range(self.lower, item)
        THEN ConvErr(s1, UTF8EncodingError)
        ELSE LET s2 == [s1 EXCEPT !.codepoint =
                            BitOr(self.codepoint, Shl32(BitAnd(item, 63), remain * 6))]
             IN  IF remain = 0
                 THEN ConvOk(s2, 1, <<s2.codepoint>>)
                 ELSE ConvOk([s2 EXCEPT !.lower = 128], 0, <<>>)

UTF8Decoder_convert(self, item) ==
    IF self.remain = 0 THEN UTF8Decoder_first_byte(self, item)
    ELSE UTF8Decoder_continuation(self, item)

\* a finalize that ignores the pending continuation bytes
UTF8Decoder_finalize_silent(self) == FinOk(self)

UTF8Decoder_finalize(self) ==
    IF self.remain = 0 THEN FinOk(self) ELSE FinErr(self, UTF8EncodingError)

UTF8Decoder_size_hint(self) == Hint(0, <<1>>)

UTF8Encoder_new == [kind |-> "UTF8Encoder"]

UTF8Encoder_convert(self, item) ==
    LET bytes == EncodeUtf8(item) IN ConvOk(self, Len(bytes), bytes)

UTF8Encoder_size_hint(self) == Hint(1, <<4>>)

-----------------------------------------------------------------------------
(* converter/encoding/utf16.rs *)

UTF16EncodingError == <<"UTF16EncodingError">>

UTF16Decoder_new == [kind |-> "UTF16Decoder", buf |-> <<>>]

\* a combination that leaves out the + 1 on the plane bits
UTF16Decoder_combine_same_plane(w, item) ==
    BitOr(BitOr(Shl32(Shr(BitAnd(w, 960), 6), 16), Shl32(BitAnd(w, 63), 10)),
          BitAnd(item, 1023))

\* a combination that takes nine bits of the low surrogate
UTF16Decoder_combine_nine_bits(w, item) ==
    BitOr(BitOr(Shl32(Shr(BitAnd(w, 960), 6) + 1, 16), Shl32(BitAnd(w, 63), 10)),
          BitAnd(item, 511))

\* the value handed to UTF32Decoder when a low surrogate follows the pending unit w
UTF16Decoder_combine(w, item) ==
    BitOr(BitOr(Shl32(Shr(BitAnd(w, 960), 6) + 1, 16), Shl32(BitAnd(w, 63), 10)),
          BitAnd(item, 1023))

\* map_err(|_| UTF16EncodingError) on the inner UTF32Decoder's result
UTF16Decoder_via_utf32(self, value) ==
    LET r == UTF32Decoder_convert(UTF32Decoder_new, value)
    IN  IF r.ok THEN ConvOk(self, r.n, r.out) ELSE ConvErr(self, UTF16EncodingError)

\* a convert that keeps the pending unit when the next one is not a low surrogate
UTF16Decoder_convert_keeps_pending(self, item) ==
    IF self.buf # <<>> /\ BitAnd(item, 64512) = 56320
    THEN UTF16Decoder_via_utf32([self EXCEPT !.buf = <<>>],
                                UTF16Decoder_combine(self.buf[1], item))
    ELSE IF self.buf # <<>>
    THEN ConvErr(self, UTF16EncodingError)
    ELSE IF BitAnd(item, 64512) = 55296
    THEN ConvOk([self EXCEPT !.buf = <<item>>], 0, <<>>)
    ELSE IF BitAnd(item, 64512) = 56320
    THEN ConvErr(self, UTF16EncodingError)
    ELSE UTF16Decoder_via_utf32(self, item)

UTF16Decoder_convert(self, item) ==
    IF self.buf # <<>> /\ BitAnd(item, 64512) = 56320
    THEN UTF16Decoder_via_utf32([self EXCEPT !.buf = <<>>],
                                UTF16Decoder_combine(self.buf[1], item))
    ELSE IF self.buf # <<>>
    THEN ConvErr([self EXCEPT !.buf = <<>>], UTF16EncodingError)
    ELSE IF BitAnd(item, 64512) = 55296
    THEN ConvOk([self EXCEPT !.buf = <<item>>], 0, <<>>)
    ELSE IF BitAnd(item, 64512) = 56320
    THEN ConvErr(self, UTF16EncodingError)
    ELSE UTF16Decoder_via_utf32(self, item)

\* a finalize that ignores the pending high surrogate
UTF16Decoder_finalize_silent(self) == FinOk(self)

UTF16Decoder_finalize(self) ==
    IF self.buf = <<>> THEN FinOk(self) ELSE FinErr(self, UTF16EncodingError)

UTF16Decoder_size_hint(self) == Hint(0, <<1>>)

UTF16Encoder_new == [kind |-> "UTF16Encoder"]

UTF16Encoder_convert(self, item) ==
    LET units == EncodeUtf16(item) IN ConvOk(self, Len(units), units)

UTF16Encoder_size_hint(self) == Hint(1, <<2>>)

UTF16BEDecoder_new == [kind |-> "UTF16BEDecoder", byte |-> <<>>, inner |-> UTF16Decoder_new]

UTF16BEDecoder_convert(self, item) ==
    IF self.byte # <<>>
    THEN LET r == UTF16Decoder_convert(self.inner, U16FromBE(self.byte[1], item))
         IN  [r EXCEPT !.self = [self EXCEPT !.byte = <<>>, !.inner = r.self]]
    ELSE ConvOk([self EXCEPT !.byte = <<item>>], 0, <<>>)

\* `if self.byte.is_some() { Ok(()) } else { Err(..) }` after the inner finalize
UTF16BEDecoder_finalize(self) ==
    LET r == UTF16Decoder_finalize(self.inner)
    IN  IF ~r.ok THEN FinErr(self, r.err)
        ELSE IF self.byte # <<>> THEN FinOk(self)
        ELSE FinErr(self, UTF16EncodingError)

UTF16BEDecoder_size_hint(self) == Hint(0, <<1>>)

UTF16BEEncoder_new == [kind |-> "UTF16BEEncoder"]

RECURSIVE FlatMap16(_, _)
FlatMap16(units, endian) ==
    IF units = <<>> THEN <<>>
    ELSE (IF endian = "BE" THEN U16ToBE(Head(units)) ELSE U16ToLE(Head(units)))
         \o FlatMap16(Tail(units), endian)

UTF16BEEncoder_convert(self, item) ==
    LET units == EncodeUtf16(item)
    IN  ConvOk(self, Len(units) * 2, FlatMap16(units, "BE"))

UTF16BEEncoder_size_hint(self) == Hint(2, <<4>>)

UTF16LEDecoder_new == [kind |-> "UTF16LEDecoder", byte |-> <<>>, inner |-> UTF16Decoder_new]

UTF16LEDecoder_convert(self, item) ==
    IF self.byte # <<>>
    THEN LET r == UTF16Decoder_convert(self.inner, U16FromLE(self.byte[1], item))
         IN  [r EXCEPT !.self = [self EXCEPT !.byte = <<>>, !.inner = r.self]]
    ELSE ConvOk([self EXCEPT !.byte = <<item>>], 0, <<>>)

UTF16LEDecoder_finalize(self) ==
    LET r == UTF16Decoder_finalize(self.inner)
    IN  IF ~r.ok THEN FinErr(self, r.err)
        ELSE IF self.byte = <<>> THEN FinOk(self)
        ELSE FinErr(self, UTF16EncodingError)

UTF16LEDecoder_size_hint(self) == Hint(0, <<1>>)

UTF16LEEncoder_new == [kind |-> "UTF16LEEncoder"]

UTF16LEEncoder_convert(self, item) ==
    LET units == EncodeUtf16(item)
    IN  ConvOk(self, Len(units) * 2, FlatMap16(units, "LE"))

UTF16LEEncoder_size_hint(self) == Hint(2, <<4>>)

-----------------------------------------------------------------------------
(* The functions a caller hands to the function-based converters.  They are *)
(* inputs of the crate; the ones named here are those of its doc examples,  *)
(* plus functions whose result holds zero, one or two items.                *)

\* char::to_uppercase on the characters used here ('a', sharp s)
to_uppercase(c) ==
    IF c = 223 THEN <<83, 83>>
    ELSE IF 97 <= c /\ c <= 122 THEN <<c - 32>>
    ELSE <<c>>

\* F: FnMut(I) -> B of IterConverter, as Ok(B)
IterFn(f, item) ==
    IF f = "to_uppercase" THEN [ok |-> TRUE, val |-> to_uppercase(item), err |-> <<>>]
    ELSE \* "repeat_n": |n| repeat(n).take(n)
         [ok |-> TRUE, val |-> [i \in 1..item |-> item], err |-> <<>>]

\* F: FnMut(I) -> Result<B, E> of TryIterConverter
TryIterFn(f, item) ==
    IF f = "ascii_upper"
    THEN IF item <= 127 THEN [ok |-> TRUE, val |-> to_uppercase(item), err |-> <<>>]
         ELSE [ok |-> FALSE, val |-> <<>>, err |-> <<"This character is not ASCII.">>]
    ELSE \* "try_repeat_n": |n| if n <= 2 { Ok(repeat(n).take(n)) } else { Err(..) }
         IF item <= 2 THEN [ok |-> TRUE, val |-> [i \in 1..item |-> item], err |-> <<>>]
         ELSE [ok |-> FALSE, val |-> <<>>, err |-> <<"too many">>]

\* F: FnMut(I) -> O of MapConverter: |x| 2 * x
MapFn(f, item) == 2 * item

\* F: FnMut(I) -> Result<O, E> of TryMapConverter:
\* |i| (42i32).checked_div(i).ok_or("division by zero")
TryMapFn(f, item) ==
    IF item = 0 THEN [ok |-> FALSE, val |-> 0, err |-> <<"division by zero">>]
    ELSE [ok |-> TRUE, val |-> 42 \div item, err |-> <<>>]

\* <u32 as TryInto<char>>::try_into
TryInto(item) ==
    IF IsScalar(item) THEN [ok |-> TRUE, val |-> item, err |-> <<>>]
    ELSE [ok |-> FALSE, val |-> 0, err |-> <<"CharTryFromError">>]

-----------------------------------------------------------------------------
(* converter/iter.rs, converter/map.rs, converter/into.rs *)

IterConverter_new(f) == [kind |-> "IterConverter", f |-> f]

IterConverter_convert(self, item) == ConvOk(self, 1, IterFn(self.f, item).val)

TryIterConverter_new(f) == [kind |-> "TryIterConverter", f |-> f]

TryIterConverter_convert(self, item) ==
    LET r == TryIterFn(self.f, item)
    IN  IF r.ok THEN ConvOk(self, 1, r.val) ELSE ConvErr(self, r.err)

TryIterConverter_size_hint(self) == Hint(1, <<1>>)

MapConverter_new(f) == [kind |-> "MapConverter", f |-> f]

MapConverter_convert(self, item) == ConvOk(self, 1, <<MapFn(self.f, item)>>)

MapConverter_size_hint(self) == Hint(1, <<1>>)

TryMapConverter_new(f) == [kind |-> "TryMapConverter", f |-> f]

TryMapConverter_convert(self, item) ==
    LET r == TryMapFn(self.f, item)
    IN  IF r.ok THEN ConvOk(self, 1, <<r.val>>) ELSE ConvErr(self, r.err)

TryMapConverter_size_hint(self) == Hint(1, <<1>>)

IntoConverter_new == [kind |-> "IntoConverter"]

IntoConverter_convert(self, item) ==
    LET r == TryInto(item)
    IN  IF r.ok THEN ConvOk(self, 1, <<r.val>>) ELSE ConvErr(self, r.err)

IntoConverter_size_hint(self) == Hint(1, <<1>>)

-----------------------------------------------------------------------------
(* converter/exact.rs *)

UnmatchedError == <<"UnmatchedError">>

\* iter: what is left of the expected sequence
ExactConverter_new(pattern) ==
    [kind |-> "ExactConverter", iter |-> pattern, is_ended |-> FALSE]

\* a match that lets a differing item pass
ExactConverter_convert_lenient(self, item) ==
    IF self.is_ended THEN ConvOk(self, 0, <<>>)
    ELSE IF self.iter = <<>> THEN ConvOk([self EXCEPT !.is_ended = TRUE], 0, <<>>)
    ELSE ConvOk([self EXCEPT !.iter = Tail(self.iter)], 0, <<>>)

ExactConverter_convert(self, item) ==
    IF self.is_ended THEN ConvOk(self, 0, <<>>)
    ELSE IF self.iter = <<>> THEN ConvOk([self EXCEPT !.is_ended = TRUE], 0, <<>>)
    ELSE IF Head(self.iter) = item THEN ConvOk([self EXCEPT !.iter = Tail(self.iter)], 0, <<>>)
    ELSE ConvErr([self EXCEPT !.iter = Tail(self.iter)], UnmatchedError)

ExactConverter_is_ended(self) == self.is_ended

ExactConverter_size_hint(self) == Hint(0, <<0>>)

-----------------------------------------------------------------------------
(* lib.rs: a Converter written by a user of the crate.  It passes `left`    *)
(* items through and ends on the item after them; its finalize fails when   *)
(* `fails` is set.  It counts the calls of its convert and finalize, which  *)
(* makes every call made on it visible in its state.                        *)

UserError == <<"UserError">>

UserConverter_new(left, fails) ==
    [kind |-> "UserConverter", left |-> left, fails |-> fails, is_ended |-> FALSE,
     converts |-> 0, finalizes |-> 0]

UserConverter_convert(self, item) ==
    LET s1 == [self EXCEPT !.converts = self.converts + 1]
    IN  IF self.is_ended THEN ConvOk(s1, 0, <<>>)
        ELSE IF self.left = 0 THEN ConvOk([s1 EXCEPT !.is_ended = TRUE], 0, <<>>)
        ELSE ConvOk([s1 EXCEPT !.left = self.left - 1], 1, <<item>>)

UserConverter_is_ended(self) == self.is_ended

UserConverter_finalize(self) ==
    LET s1 == [self EXCEPT !.finalizes = self.finalizes + 1]
    IN  IF self.fails THEN FinErr(s1, UserError) ELSE FinOk(s1)

-----------------------------------------------------------------------------
(* lib.rs: the Converter trait, dispatched on the converter's type *)

RECURSIVE convert(_, _)
RECURSIVE is_ended(_)
RECURSIVE finalize(_)
RECURSIVE size_hint(_)

\* the trait's default methods
Converter_is_ended(self) == FALSE
Converter_finalize(self) == FinOk(self)
Converter_size_hint(self) == Hint(0, <<>>)

-----------------------------------------------------------------------------
(* converter.rs, converter/chained.rs *)

ChainedError_First(e)  == <<"First">> \o e
ChainedError_Second(e) == <<"Second">> \o e

ChainedConverter_new(first, second) ==
    [kind |-> "ChainedConverter", first |-> first, second |-> second, first_ended |-> FALSE]

\* self.second.convert(item, buf).map_err(ChainedError::Second)
ChainedConverter_to_second(self, item, before) ==
    LET r    == convert(self.second, item)
        next == [self EXCEPT !.second = r.self]
    IN  IF r.ok THEN ConvOk(next, r.n, before \o r.out)
        ELSE [ConvErr(next, ChainedError_Second(r.err)) EXCEPT !.out = before \o r.out]

\* mutant of ChainedConverter_transition: a failure of first.finalize() is
\* reported as the second converter's
ChainedConverter_transition_mistagged(self, item, before) ==
    LET s1 == [self EXCEPT !.first_ended = TRUE]
        f  == finalize(s1.first)
        s2 == [s1 EXCEPT !.first = f.self]
    IN  IF ~f.ok
        THEN [ConvErr(s2, ChainedError_Second(f.err)) EXCEPT !.out = before]
        ELSE ChainedConverter_to_second(s2, item, before)

\* mutant of ChainedConverter_transition: the item that ended the first
\* converter is not passed on to the second
ChainedConverter_transition_drops_item(self, item, before) ==
    LET s1 == [self EXCEPT !.first_ended = TRUE]
        f  == finalize(s1.first)
        s2 == [s1 EXCEPT !.first = f.self]
    IN  IF ~f.ok
        THEN [ConvErr(s2, ChainedError_First(f.err)) EXCEPT !.out = before]
        ELSE ConvOk(s2, 0, before)

\* the arm `Ok(0) if self.first.is_ended()`
ChainedConverter_transition(self, item, before) ==
    LET s1 == [self EXCEPT !.first_ended = TRUE]
        f  == finalize(s1.first)
        s2 == [s1 EXCEPT !.first = f.self]
    IN  IF ~f.ok
        THEN [ConvErr(s2, ChainedError_First(f.err)) EXCEPT !.out = before]
        ELSE ChainedConverter_to_second(s2, item, before)

\* mutant of ChainedConverter_convert: the first converter is offered every
\* item, also after it has ended
ChainedConverter_convert_asks_first(self, item) ==
    LET r  == convert(self.first, item)
        s1 == [self EXCEPT !.first = r.self]
    IN  IF self.first_ended THEN ChainedConverter_to_second(s1, item, <<>>)
        ELSE IF r.ok /\ r.n = 0 /\ is_ended(r.self)
        THEN ChainedConverter_transition(s1, item, r.out)
        ELSE IF r.ok THEN ConvOk(s1, r.n, r.out)
        ELSE [ConvErr(s1, ChainedError_First(r.err)) EXCEPT !.out = r.out]

ChainedConverter_convert(self, item) ==
    IF self.first_ended THEN ChainedConverter_to_second(self, item, <<>>)
    ELSE LET r  == convert(self.first, item)
             s1 == [self EXCEPT !.first = r.self]
         IN  IF r.ok /\ r.n = 0 /\ is_ended(r.self)
             THEN ChainedConverter_transition(s1, item, r.out)
             ELSE IF r.ok THEN ConvOk(s1, r.n, r.out)
             ELSE [ConvErr(s1, ChainedError_First(r.err)) EXCEPT !.out = r.out]

\* mutant of ChainedConverter_is_ended: reports the first converter's end
ChainedConverter_is_ended_first(self) == is_ended(self.first)

ChainedConverter_is_ended(self) == is_ended(self.second)

ChainedConverter_finalize(self) ==
    LET r    == finalize(self.second)
        next == [self EXCEPT !.second = r.self]
    IN  IF r.ok THEN FinOk(next) ELSE FinErr(next, ChainedError_Second(r.err))

ChainedConverter_size_hint(self) == Hint(0, <<0>>)

-----------------------------------------------------------------------------
(* Static dispatch of the four trait methods *)

convert(self, item) ==
    CASE self.kind = "ASCIIDecoder"     -> ASCIIDecoder_convert(self, item)
      [] self.kind = "ASCIIEncoder"     -> ASCIIEncoder_convert(self, item)
      [] self.kind = "UTF8Decoder"      -> UTF8Decoder_convert(self, item)
      [] self.kind = "UTF8Encoder"      -> UTF8Encoder_convert(self, item)
      [] self.kind = "UTF16Decoder"     -> UTF16Decoder_convert(self, item)
      [] self.kind = "UTF16Encoder"     -> UTF16Encoder_convert(self, item)
      [] self.kind = "UTF16BEDecoder"   -> UTF16BEDecoder_convert(self, item)
      [] self.kind = "UTF16BEEncoder"   -> UTF16BEEncoder_convert(self, item)
      [] self.kind = "UTF16LEDecoder"   -> UTF16LEDecoder_convert(self, item)
      [] self.kind = "UTF16LEEncoder"   -> UTF16LEEncoder_convert(self, item)
      [] self.kind = "UTF32Decoder"     -> UTF32Decoder_convert(self, item)
      [] self.kind = "UTF32Encoder"     -> UTF32Encoder_convert(self, item)
      [] self.kind = "UTF32BEDecoder"   -> UTF32BEDecoder_convert(self, item)
      [] self.kind = "UTF32BEEncoder"   -> UTF32BEEncoder_convert(self, item)
      [] self.kind = "UTF32LEDecoder"   -> UTF32LEDecoder_convert(self, item)
      [] self.kind = "UTF32LEEncoder"   -> UTF32LEEncoder_convert(self, item)
      [] self.kind = "IterConverter"    -> IterConverter_convert(self, item)
      [] self.kind = "TryIterConverter" -> TryIterConverter_convert(self, item)
      [] self.kind = "MapConverter"     -> MapConverter_convert(self, item)
      [] self.kind = "TryMapConverter"  -> TryMapConverter_convert(self, item)
      [] self.kind = "IntoConverter"    -> IntoConverter_convert(self, item)
      [] self.kind = "ExactConverter"   -> ExactConverter_convert(self, item)
      [] self.kind = "ChainedConverter" -> ChainedConverter_convert(self, item)
      [] self.kind = "UserConverter"    -> UserConverter_convert(self, item)

is_ended(self) ==
    CASE self.kind = "ExactConverter"   -> ExactConverter_is_ended(self)
      [] self.kind = "ChainedConverter" -> ChainedConverter_is_ended(self)
      [] self.kind = "UserConverter"    -> UserConverter_is_ended(self)
      [] OTHER                          -> Converter_is_ended(self)

finalize(self) ==
    CASE self.kind = "UTF8Decoder"      -> UTF8Decoder_finalize(self)
      [] self.kind = "UTF16Decoder"     -> UTF16Decoder_finalize(self)
      [] self.kind = "UTF16BEDecoder"   -> UTF16BEDecoder_finalize(self)
      [] self.kind = "UTF16LEDecoder"   -> UTF16LEDecoder_finalize(self)
      [] self.kind = "UTF32BEDecoder"   -> UTF32BEDecoder_finalize(self)
      [] self.kind = "UTF32LEDecoder"   -> UTF32LEDecoder_finalize(self)
      [] self.kind = "ChainedConverter" -> ChainedConverter_finalize(self)
      [] self.kind = "UserConverter"    -> UserConverter_finalize(self)
      [] OTHER                          -> Converter_finalize(self)

size_hint(self) ==
    CASE self.kind = "ASCIIDecoder"     -> ASCIIDecoder_size_hint(self)
      [] self.kind = "ASCIIEncoder"     -> ASCIIEncoder_size_hint(self)
      [] self.kind = "UTF8Decoder"      -> UTF8Decoder_size_hint(self)
      [] self.kind = "UTF8Encoder"      -> UTF8Encoder_size_hint(self)
      [] self.kind = "UTF16Decoder"     -> UTF16Decoder_size_hint(self)
      [] self.kind = "UTF16Encoder"     -> UTF16Encoder_size_hint(self)
      [] self.kind = "UTF16BEDecoder"   -> UTF16BEDecoder_size_hint(self)
      [] self.kind = "UTF16BEEncoder"   -> UTF16BEEncoder_size_hint(self)
      [] self.kind = "UTF16LEDecoder"   -> UTF16LEDecoder_size_hint(self)
      [] self.kind = "UTF16LEEncoder"   -> UTF16LEEncoder_size_hint(self)
      [] self.kind = "UTF32Decoder"     -> UTF32Decoder_size_hint(self)
      [] self.kind = "UTF32Encoder"     -> UTF32Encoder_size_hint(self)
      [] self.kind = "UTF32BEDecoder"   -> UTF32BEDecoder_size_hint(self)
      [] self.kind = "UTF32BEEncoder"   -> UTF32BEEncoder_size_hint(self)
      [] self.kind = "UTF32LEDecoder"   -> UTF32LEDecoder_size_hint(self)
      [] self.kind = "UTF32LEEncoder"   -> UTF32LEEncoder_size_hint(self)
      [] self.kind = "TryIterConverter" -> TryIterConverter_size_hint(self)
      [] self.kind = "MapConverter"     -> MapConverter_size_hint(self)
      [] self.kind = "TryMapConverter"  -> TryMapConverter_size_hint(self)
      [] self.kind = "IntoConverter"    -> IntoConverter_size_hint(self)
      [] self.kind = "ExactConverter"   -> ExactConverter_size_hint(self)
      [] self.kind = "ChainedConverter" -> ChainedConverter_size_hint(self)
      [] OTHER                          -> Converter_size_hint(self)

-----------------------------------------------------------------------------
(* What a driver hands back, and the record of what one call did *)

\* Option<Result<Output, Error>>, and Poll::Pending of the asynchronous drivers
RetNone    == [tag |-> "None", val |-> 0, err |-> <<>>]
RetOk(v)   == [tag |-> "Ok", val |-> v, err |-> <<>>]
RetErr(e)  == [tag |-> "Err", val |-> 0, err |-> e]
RetPending == [tag |-> "Pending", val |-> 0, err |-> <<>>]
RetStart   == [tag |-> "Start", val |-> 0, err |-> <<>>]

\* an element of a source: Ok(item), or Err(e) of a fallible source
SrcOk(item) == [ok |-> TRUE, item |-> item, err |-> <<>>]
SrcErr(e)   == [ok |-> FALSE, item |-> 0, err |-> e]

\* error.rs: CombinedError
CombinedError_Stream(e)     == <<"Stream">> \o e
CombinedError_Conversion(e) == <<"Conversion">> \o e

\* One step inside a call: the source was pulled (c, b: converter and buffer at
\* that moment), convert was called, or finalize was called (c, b: after it).
EvPull(got, item, err, c, b) ==
    [op |-> "pull", got |-> got, item |-> item, ok |-> TRUE, n |-> 0, err |-> err,
     out |-> <<>>, was_ended |-> is_ended(c), ended |-> is_ended(c), c |-> c, b |-> b]

EvConvert(item, r, c0, b) ==
    [op |-> "convert", got |-> "item", item |-> item, ok |-> r.ok, n |-> r.n,
     err |-> r.err, out |-> r.out, was_ended |-> is_ended(c0),
     ended |-> is_ended(r.self), c |-> r.self, b |-> b]

EvFinalize(f, c0, b) ==
    [op |-> "finalize", got |-> "none", item |-> 0, ok |-> f.ok, n |-> 0,
     err |-> f.err, out |-> <<>>, was_ended |-> is_ended(c0),
     ended |-> is_ended(f.self), c |-> f.self, b |-> b]

\* the state a call leaves behind
Done(b, s, c, r, ev) == [buffer |-> b, src |-> s, conv |-> c, ret |-> r, events |-> ev]

\* mutant of PopFront: pop_back instead of pop_front
PopBack(b, s, c, ev) ==
    IF b = <<>> THEN Done(b, s, c, RetNone, ev)
    ELSE Done(SubSeq(b, 1, Len(b) - 1), s, c, RetOk(b[Len(b)]), ev)

\* a pop that yields the second output before the first
PopFront_second_first(b, s, c, ev) ==
    IF b = <<>> THEN Done(b, s, c, RetNone, ev)
    ELSE IF Len(b) = 1 THEN Done(<<>>, s, c, RetOk(b[1]), ev)
    ELSE Done(<<b[1]>> \o SubSeq(b, 3, Len(b)), s, c, RetOk(b[2]), ev)

\* self.buffer.pop_front().map(Ok)
PopFront(b, s, c, ev) ==
    IF b = <<>> THEN Done(b, s, c, RetNone, ev)
    ELSE Done(Tail(b), s, c, RetOk(Head(b)), ev)

\* mutant of MatchConvert: the arm `Ok(0) => continue` is missing
MatchConvert_no_zero_arm(r, ended) ==
    IF r.ok /\ r.n = 0 /\ ended THEN "OkZeroEnded"
    ELSE IF r.ok THEN "OkSome"
    ELSE "Err"

\* mutant of MatchConvert: the arm `Ok(0) if self.converter.is_ended()` is missing
MatchConvert_no_ended_arm(r, ended) ==
    IF r.ok /\ r.n = 0 THEN "OkZero"
    ELSE IF r.ok THEN "OkSome"
    ELSE "Err"

\* mutant of MatchConvert: a conversion error is skipped like Ok(0)
MatchConvert_swallow_err(r, ended) ==
    IF r.ok /\ r.n = 0 /\ ended THEN "OkZeroEnded"
    ELSE IF r.ok /\ r.n > 0 THEN "OkSome"
    ELSE "OkZero"

\* the arms of `match self.converter.convert(item, &mut self.buffer)`, in order
MatchConvert(r, ended) ==
    IF r.ok /\ r.n = 0 /\ ended THEN "OkZeroEnded"
    ELSE IF r.ok /\ r.n = 0 THEN "OkZero"
    ELSE IF r.ok THEN "OkSome"
    ELSE "Err"

\* `if !self.buffer.is_empty()`
BufferFirst(b) == b # <<>>

-----------------------------------------------------------------------------
(* iter.rs: ConvertedIterator *)

\* `match self.converter.finalize()`
ConvertedIterator_finalize(b, s, c, ev) ==
    LET f == finalize(c)
        e == Append(ev, EvFinalize(f, c, b))
    IN  IF f.ok THEN Done(b, s, f.self, RetNone, e)
        ELSE Done(b, s, f.self, RetErr(f.err), e)

RECURSIVE ConvertedIterator_loop(_, _, _, _)
ConvertedIterator_loop(b, s, c, ev) ==
    IF s = <<>>
    THEN ConvertedIterator_finalize(b, s, c, Append(ev, EvPull("none", 0, <<>>, c, b)))
    ELSE LET item == Head(s).item
             r    == convert(c, item)
             b1   == b \o r.out
             e1   == ev \o <<EvPull("item", item, <<>>, c, b), EvConvert(item, r, c, b1)>>
             arm  == MatchConvert(r, is_ended(r.self))
         IN  CASE arm = "OkZeroEnded" -> ConvertedIterator_finalize(b1, Tail(s), r.self, e1)
               [] arm = "OkZero"      -> ConvertedIterator_loop(b1, Tail(s), r.self, e1)
               [] arm = "OkSome"      -> PopFront(b1, Tail(s), r.self, e1)
               [] arm = "Err"         -> Done(b1, Tail(s), r.self, RetErr(r.err), e1)

ConvertedIterator_next(b, s, c) ==
    IF BufferFirst(b) THEN PopFront(b, s, c, <<>>)
    ELSE ConvertedIterator_loop(b, s, c, <<>>)

\* self.iter.size_hint() of a source that knows its length, as the iterators
\* of slices, arrays and Vec do
Source_size_hint(s) == Hint(Len(s), <<Len(s)>>)

\* size_hint of ConvertedIterator; ConvertedTryIterator, ConvertedStream and
\* ConvertedTryStream compute theirs the same way
ConvertedIterator_size_hint(s, c) ==
    LET iter      == Source_size_hint(s)
        converter == size_hint(c)
    IN  Hint(iter.min * converter.min,
             IF iter.max = <<>> \/ converter.max = <<>> THEN <<>>
             ELSE <<iter.max[1] * converter.max[1]>>)

-----------------------------------------------------------------------------
(* iter/tryiter.rs: ConvertedTryIterator *)

ConvertedTryIterator_finalize(b, s, c, ev) ==
    LET f == finalize(c)
        e == Append(ev, EvFinalize(f, c, b))
    IN  IF f.ok THEN Done(b, s, f.self, RetNone, e)
        ELSE Done(b, s, f.self, RetErr(CombinedError_Conversion(f.err)), e)

\* mutant of ConvertedTryIterator_source_error: tagged as a conversion error
ConvertedTryIterator_source_error_mistagged(b, s, c, ev) ==
    Done(b, Tail(s), c, RetErr(CombinedError_Conversion(Head(s).err)),
         Append(ev, EvPull("err", 0, Head(s).err, c, b)))

\* mutant of ConvertedTryIterator_source_error: finalizes like the `None` arm
ConvertedTryIterator_source_error_finalizing(b, s, c, ev) ==
    LET f == finalize(c)
    IN  Done(b, Tail(s), f.self, RetErr(CombinedError_Stream(Head(s).err)),
             ev \o <<EvPull("err", 0, Head(s).err, c, b), EvFinalize(f, c, b)>>)

\* the arm `Some(Err(e))`
ConvertedTryIterator_source_error(b, s, c, ev) ==
    Done(b, Tail(s), c, RetErr(CombinedError_Stream(Head(s).err)),
         Append(ev, EvPull("err", 0, Head(s).err, c, b)))

RECURSIVE ConvertedTryIterator_loop(_, _, _, _)
ConvertedTryIterator_loop(b, s, c, ev) ==
    IF s = <<>>
    THEN ConvertedTryIterator_finalize(b, s, c, Append(ev, EvPull("none", 0, <<>>, c, b)))
    ELSE IF ~Head(s).ok
    THEN ConvertedTryIterator_source_error(b, s, c, ev)
    ELSE LET item == Head(s).item
             r    == convert(c, item)
             b1   == b \o r.out
             e1   == ev \o <<EvPull("item", item, <<>>, c, b), EvConvert(item, r, c, b1)>>
             arm  == MatchConvert(r, is_ended(r.self))
         IN  CASE arm = "OkZeroEnded" -> ConvertedTryIterator_finalize(b1, Tail(s), r.self, e1)
               [] arm = "OkZero"      -> ConvertedTryIterator_loop(b1, Tail(s), r.self, e1)
               [] arm = "OkSome"      -> PopFront(b1, Tail(s), r.self, e1)
               [] arm = "Err"         ->
                    Done(b1, Tail(s), r.self, RetErr(CombinedError_Conversion(r.err)), e1)

ConvertedTryIterator_next(b, s, c) ==
    IF BufferFirst(b) THEN PopFront(b, s, c, <<>>)
    ELSE ConvertedTryIterator_loop(b, s, c, <<>>)

-----------------------------------------------------------------------------
(* stream.rs: ConvertedStream.  `pending` is the answer of the upstream     *)
(* stream's poll_next when it is polled: TRUE for Poll::Pending.            *)

\* an end of stream that drops the error of finalize
ConvertedStream_finalize_swallows(b, s, c, ev) ==
    LET f == finalize(c)
    IN  Done(b, s, f.self, RetNone, Append(ev, EvFinalize(f, c, b)))

ConvertedStream_finalize(b, s, c, ev) ==
    LET f == finalize(c)
        e == Append(ev, EvFinalize(f, c, b))
    IN  IF f.ok THEN Done(b, s, f.self, RetNone, e)
        ELSE Done(b, s, f.self, RetErr(f.err), e)

\* `match ready!(this.stream.poll_next(cx))`
ConvertedStream_polled(b, s, c, pending) ==
    IF pending
    THEN Done(b, s, c, RetPending, <<EvPull("pending", 0, <<>>, c, b)>>)
    ELSE IF s = <<>>
    THEN ConvertedStream_finalize(b, s, c, <<EvPull("none", 0, <<>>, c, b)>>)
    ELSE LET item == Head(s).item
             r    == convert(c, item)
             b1   == b \o r.out
             e1   == <<EvPull("item", item, <<>>, c, b), EvConvert(item, r, c, b1)>>
             arm  == MatchConvert(r, is_ended(r.self))
         IN  CASE arm = "OkZeroEnded" -> ConvertedStream_finalize(b1, Tail(s), r.self, e1)
               [] arm = "OkZero"      -> Done(b1, Tail(s), r.self, RetPending, e1)
               [] arm = "OkSome"      -> PopFront(b1, Tail(s), r.self, e1)
               [] arm = "Err"         -> Done(b1, Tail(s), r.self, RetErr(r.err), e1)

\* a poll that takes Poll::Pending of the source for its end
ConvertedStream_poll_next_ends_on_pending(b, s, c, pending) ==
    IF BufferFirst(b) THEN PopFront(b, s, c, <<>>)
    ELSE IF pending
    THEN ConvertedStream_finalize(b, s, c, <<EvPull("pending", 0, <<>>, c, b)>>)
    ELSE ConvertedStream_polled(b, s, c, FALSE)

ConvertedStream_poll_next(b, s, c, pending) ==
    IF BufferFirst(b) THEN PopFront(b, s, c, <<>>)
    ELSE ConvertedStream_polled(b, s, c, pending)

-----------------------------------------------------------------------------
(* stream/trystream.rs: ConvertedTryStream *)

ConvertedTryStream_finalize(b, s, c, ev) ==
    LET f == finalize(c)
        e == Append(ev, EvFinalize(f, c, b))
    IN  IF f.ok THEN Done(b, s, f.self, RetNone, e)
        ELSE Done(b, s, f.self, RetErr(CombinedError_Conversion(f.err)), e)

\* the arm `Some(Err(e))`
ConvertedTryStream_source_error(b, s, c, ev) ==
    Done(b, Tail(s), c, RetErr(CombinedError_Stream(Head(s).err)),
         Append(ev, EvPull("err", 0, Head(s).err, c, b)))

\* `match ready!(this.stream.try_poll_next(cx))`
ConvertedTryStream_polled(b, s, c, pending) ==
    IF pending
    THEN Done(b, s, c, RetPending, <<EvPull("pending", 0, <<>>, c, b)>>)
    ELSE IF s = <<>>
    THEN ConvertedTryStream_finalize(b, s, c, <<EvPull("none", 0, <<>>, c, b)>>)
    ELSE IF ~Head(s).ok
    THEN ConvertedTryStream_source_error(b, s, c, <<>>)
    ELSE LET item == Head(s).item
             r    == convert(c, item)
             b1   == b \o r.out
             e1   == <<EvPull("item", item, <<>>, c, b), EvConvert(item, r, c, b1)>>
             arm  == MatchConvert(r, is_ended(r.self))
         IN  CASE arm = "OkZeroEnded" -> ConvertedTryStream_finalize(b1, Tail(s), r.self, e1)
               [] arm = "OkZero"      -> Done(b1, Tail(s), r.self, RetPending, e1)
               [] arm = "OkSome"      -> PopFront(b1, Tail(s), r.self, e1)
               [] arm = "Err"         ->
                    Done(b1, Tail(s), r.self, RetErr(CombinedError_Conversion(r.err)), e1)

ConvertedTryStream_poll_next(b, s, c, pending) ==
    IF BufferFirst(b) THEN PopFront(b, s, c, <<>>)
    ELSE ConvertedTryStream_polled(b, s, c, pending)

-----------------------------------------------------------------------------
(* The state machine: one converter driven over one source.                 *)
(*                                                                         *)
(* driver    which wrapper owns the converter: "iter", "tryiter", "stream", *)
(*           "trystream", or "direct" for a caller that uses the Converter  *)
(*           trait itself                                                   *)
(* conv      the converter                                                  *)
(* buffer    the wrapper's VecDeque (for "direct": the sink of the last     *)
(*           convert call)                                                  *)
(* src       what the source has not yet produced                           *)
(* ret       what the last call returned                                    *)
(* events    what the last call did, in order                               *)
(* pre       buffer, src, conv and ret as they were when the last call began *)
(* extra     calls made with the source exhausted and the buffer empty      *)
(* pend      Poll::Pending answers the asynchronous source may still give   *)
(* finalized calls of the converter's finalize made so far                  *)
(* run       what the caller does with the driver: task "next" is a caller  *)
(*           making single calls; the other tasks collect the driver's      *)
(*           items, as `.collect()` does, and data is what they started from *)
(* yielded   the items collected so far, in order                           *)
(* appended  during a collection, what the converter has produced so far,   *)
(*           in order: the outputs its convert calls appended, its errors,  *)
(*           and the end its finalize agreed to                             *)

\* a converter as constructed, with the items its source is drawn from
Cfg(c, items) == [conv |-> c, items |-> items]

Configs ==
    { Cfg(ASCIIDecoder_new, {115, 195}),
      Cfg(ASCIIEncoder_new, {115, 223}),
      Cfg(UTF8Decoder_new, {65, 195, 159}),
      Cfg(UTF8Encoder_new, {65, 223, 119070}),
      Cfg(UTF16Decoder_new, {109, 55348, 56606}),
      Cfg(UTF16Encoder_new, {109, 119070}),
      Cfg(UTF16BEDecoder_new, {0, 109, 216}),
      Cfg(UTF16BEEncoder_new, {109, 119070}),
      Cfg(UTF16LEDecoder_new, {0, 109, 216}),
      Cfg(UTF16LEEncoder_new, {109, 119070}),
      Cfg(UTF32Decoder_new, {128175, 1114112}),
      Cfg(UTF32Encoder_new, {128175, 10084}),
      Cfg(UTF32BEDecoder_new, {0, 65}),
      Cfg(UTF32BEEncoder_new, {128175, 10084}),
      Cfg(UTF32LEDecoder_new, {0, 65}),
      Cfg(UTF32LEEncoder_new, {128175, 10084}),
      Cfg(IterConverter_new("to_uppercase"), {97, 223}),
      Cfg(IterConverter_new("repeat_n"), {0, 1, 2}),
      Cfg(TryIterConverter_new("ascii_upper"), {97, 223}),
      Cfg(TryIterConverter_new("try_repeat_n"), {0, 2, 3}),
      Cfg(MapConverter_new("double"), {1, 2}),
      Cfg(TryMapConverter_new("divide_42"), {3, 0}),
      Cfg(IntoConverter_new, {10084, 1114112}),
      Cfg(ExactConverter_new(<<97>>), {97, 98}),
      Cfg(ExactConverter_new(<<97, 98>>), {97, 98}),
      Cfg(ChainedConverter_new(ExactConverter_new(<<255>>), ASCIIDecoder_new), {255, 65, 195}),
      Cfg(ChainedConverter_new(ExactConverter_new(<<255>>), UTF16LEDecoder_new), {255, 65, 0}),
      Cfg(ChainedConverter_new(UTF8Decoder_new, ASCIIDecoder_new), {65, 195}),
      Cfg(ChainedConverter_new(ExactConverter_new(<<97>>), ExactConverter_new(<<98>>)),
          {97, 98}),
      Cfg(UserConverter_new(1, TRUE), {65, 66}),
      Cfg(ChainedConverter_new(UserConverter_new(1, FALSE), ASCIIDecoder_new), {65, 195}),
      Cfg(ChainedConverter_new(UserConverter_new(0, TRUE), ASCIIDecoder_new), {65, 195}),
      Cfg(ChainedConverter_new(UserConverter_new(1, FALSE), UserConverter_new(1, TRUE)),
          {65, 66}) }

Drivers == {"iter", "tryiter", "stream", "trystream", "direct"}

Fallible(d) == d \in {"tryiter", "trystream"}
Async(d)    == d \in {"stream", "trystream"}

SourceError == <<"SourceError">>

\* the elements a source of driver d may produce
Elements(d, items) ==
    {SrcOk(i) : i \in items} \cup (IF Fallible(d) THEN {SrcErr(SourceError)} ELSE {})

SeqsUpTo(S, n) == UNION {[1..k -> S] : k \in 0..n}

Init ==
    /\ driver \in Drivers
    /\ \E cfg \in Configs :
          /\ conv = cfg.conv
          /\ src \in SeqsUpTo(Elements(driver, cfg.items), MaxSrc)
    /\ buffer = <<>>
    /\ ret = RetStart
    /\ events = <<>>
    /\ pre = [buffer |-> <<>>, src |-> src, conv |-> conv, ret |-> RetStart]
    /\ extra = 0
    /\ pend = IF Async(driver) THEN MaxPend ELSE 0
    /\ finalized = 0
    /\ run = [task |-> "next", data |-> <<>>]
    /\ yielded = <<>>
    /\ appended = <<>>

\* a call may be made at any time; idle calls are counted and bounded
Idle == src = <<>> /\ buffer = <<>>

CanCall == ~Idle \/ extra < MaxExtra

CountFinalize(ev) == Cardinality({i \in 1..Len(ev) : ev[i].op = "finalize"})

RECURSIVE Flatten(_)
Flatten(seqs) == IF seqs = <<>> THEN <<>> ELSE Head(seqs) \o Flatten(Tail(seqs))

\* what the converter produced in the events of one call, as the driver
\* reports an error of the converter
Produced(ev) ==
    LET err(e) == RetErr(IF Fallible(driver) THEN CombinedError_Conversion(e) ELSE e)
        of(e)  == IF e.op = "convert"
                  THEN IF e.ok THEN [k \in 1..Len(e.out) |-> RetOk(e.out[k])]
                       ELSE <<err(e.err)>>
                  ELSE IF e.op = "finalize"
                  THEN IF e.ok THEN <<RetNone>> ELSE <<err(e.err)>>
                  ELSE <<>>
    IN  Flatten([i \in 1..Len(ev) |-> of(ev[i])])

\* the effect of one call on the state
Apply(d) ==
    /\ buffer' = d.buffer
    /\ src' = d.src
    /\ conv' = d.conv
    /\ ret' = d.ret
    /\ events' = d.events
    /\ pre' = [buffer |-> buffer, src |-> src, conv |-> conv, ret |-> ret]
    /\ extra' = IF Idle THEN extra + 1 ELSE extra
    /\ finalized' = finalized + CountFinalize(d.events)
    /\ yielded' = IF run.task = "next" \/ d.ret = RetPending THEN yielded
                  ELSE Append(yielded, d.ret)
    /\ appended' = IF run.task = "next" THEN appended
                   ELSE appended \o Produced(d.events)
    /\ UNCHANGED <<driver, run>>

IteratorNext ==
    /\ driver = "iter"
    /\ CanCall
    /\ Apply(ConvertedIterator_next(buffer, src, conv))
    /\ UNCHANGED pend

TryIteratorNext ==
    /\ driver = "tryiter"
    /\ CanCall
    /\ Apply(ConvertedTryIterator_next(buffer, src, conv))
    /\ UNCHANGED pend

\* the upstream stream is polled only when the buffer is empty
StreamPollNext ==
    /\ driver = "stream"
    /\ CanCall
    /\ \E pending \in BOOLEAN :
          /\ pending => (pend > 0 /\ buffer = <<>>)
          /\ Apply(ConvertedStream_poll_next(buffer, src, conv, pending))
          /\ pend' = IF pending THEN pend - 1 ELSE pend

TryStreamPollNext ==
    /\ driver = "trystream"
    /\ CanCall
    /\ \E pending \in BOOLEAN :
          /\ pending => (pend > 0 /\ buffer = <<>>)
          /\ Apply(ConvertedTryStream_poll_next(buffer, src, conv, pending))
          /\ pend' = IF pending THEN pend - 1 ELSE pend

\* a caller of the trait: convert on the next item, into a fresh sink
CallConvert ==
    /\ driver = "direct"
    /\ src # <<>>
    /\ LET item == Head(src).item
           r    == convert(conv, item)
       IN  Apply(Done(r.out, Tail(src), r.self,
                      IF r.ok THEN RetOk(r.n) ELSE RetErr(r.err),
                      <<EvConvert(item, r, conv, r.out)>>))
    /\ UNCHANGED pend

\* a caller of the trait: finalize, at any point
CallFinalize ==
    /\ driver = "direct"
    /\ extra < MaxExtra
    /\ LET f == finalize(conv)
       IN  /\ buffer' = <<>>
           /\ conv' = f.self
           /\ ret' = IF f.ok THEN RetNone ELSE RetErr(f.err)
           /\ events' = <<EvFinalize(f, conv, <<>>)>>
           /\ pre' = [buffer |-> buffer, src |-> src, conv |-> conv, ret |-> ret]
           /\ extra' = extra + 1
           /\ finalized' = finalized + 1
    /\ UNCHANGED <<driver, src, pend, run, yielded, appended>>

Next ==
    \/ IteratorNext
    \/ TryIteratorNext
    \/ StreamPollNext
    \/ TryStreamPollNext
    \/ CallConvert
    \/ CallFinalize

Spec == Init /\ [][Next]_vars

-----------------------------------------------------------------------------
(* Collecting a driver's items, as `.collect()` does in the doc examples    *)
(* and the tests: the driver is called until it answers None, or has        *)
(* answered a call that found its buffer and its source empty.              *)

\* one call of the driver d, its source ready
Call(d, b, s, c) ==
    CASE d = "iter"      -> ConvertedIterator_next(b, s, c)
      [] d = "tryiter"   -> ConvertedTryIterator_next(b, s, c)
      [] d = "stream"    -> ConvertedStream_poll_next(b, s, c, FALSE)
      [] d = "trystream" -> ConvertedTryStream_poll_next(b, s, c, FALSE)

\* the answer r of a call that found buffer b and source s ends the collection
Ends(r, b, s) == r = RetNone \/ (r # RetPending /\ b = <<>> /\ s = <<>>)

\* the items collected after one more call that left the driver as r
RECURSIVE Collected(_, _, _, _, _)
Collected(d, b, s, c, acc) ==
    CHOOSE items \in
        { IF Ends(r.ret, b, s) THEN Append(acc, r.ret)
          ELSE Collected(d, r.buffer, r.src, r.conv,
                         IF r.ret = RetPending THEN acc ELSE Append(acc, r.ret)) :
            r \in {Call(d, b, s, c)} } : TRUE

\* everything a fresh driver d of converter c yields over the source s
Collect(d, c, s) == Collected(d, <<>>, s, c, <<>>)

\* all the items but the last, and the values of Ok items
Front(items)  == SubSeq(items, 1, Len(items) - 1)
Values(items) == [i \in 1..Len(items) |-> items[i].val]
AllOk(items)  == \A i \in 1..Len(items) : items[i].tag = "Ok"

\* an infallible source of the given values
AsSource(vals) == [i \in 1..Len(vals) |-> SrcOk(vals[i])]

\* the output of an encoder over the given characters, collected
Encoded(enc, chars) == Values(Front(Collect("iter", enc, AsSource(chars))))

Prefixes(S) == UNION {{SubSeq(q, 1, k) : k \in 0..Len(q)} : q \in S}

-----------------------------------------------------------------------------
(* The collected runs: a converter, the source it is driven over, and what  *)
(* the source was made from.                                                *)
(*   "prefix"     chain(ExactConverter(pattern), decoder) over pattern      *)
(*                followed by data (lib.rs, the example of chain)           *)
(*   "utf8"       UTF8Decoder over the bytes data                           *)
(*   "roundtrip"  decoder over what encoder made of the characters data     *)
(*   "utf16"      UTF16Decoder over the 16-bit units data                   *)
(*   "utf32"      a byte-oriented UTF-32 decoder over the bytes data        *)
(*   "exact"      ExactConverter(pattern) over the items data (exact.rs,    *)
(*                the example of ExactConverter)                            *)
(*   "drive"      a converter of Configs over the items data                *)
(* conv and src are the converter and the source the run starts from.       *)

Job(task, data, pattern, encoder, decoder, c, s) ==
    [task |-> task, data |-> data, pattern |-> pattern, encoder |-> encoder,
     decoder |-> decoder, conv |-> c, src |-> s]

\* b"\xFF\xFE" of the example, and a one-byte pattern
Patterns == {<<255, 254>>, <<255>>}

\* the second converter of a chain, with the items that follow the pattern
Seconds ==
    { Cfg(UTF16LEDecoder_new, {61, 216, 163, 220}),
      Cfg(ASCIIDecoder_new, {65, 195}),
      Cfg(UTF8Decoder_new, {65, 195, 128}) }

PrefixJobs ==
    UNION { { Job("prefix", rest, p, <<>>, d.conv,
                  ChainedConverter_new(ExactConverter_new(p), d.conv), p \o rest) :
                p \in Patterns, rest \in SeqsUpTo(d.items, MaxRest) } : d \in Seconds }

\* characters whose UTF-8 forms have 1 to 4 bytes and continuation bytes from
\* 0x80 to 0xBF: 'A', U+00BF, U+00C0, U+0800, U+3042, U+10000, U+1D11E, U+10FFFF
Utf8Chars == {65, 191, 192, 2048, 12354, 65536, 119070, 1114111}

\* the UTF-8 form of a string
Utf8(chars) == Flatten([i \in 1..Len(chars) |-> EncodeUtf8(chars[i])])

WellFormedUtf8 == {Utf8(cs) : cs \in SeqsUpTo(Utf8Chars, MaxChars)}

\* well-formed sequences and what is left of them when the end is cut off
Utf8Prefixes == Prefixes(WellFormedUtf8)

\* the bytes of the overlong forms of '/': C0 AF, E0 80 AF, F0 80 80 AF
OverlongBytes == {192, 224, 240, 128, 175}

\* every byte alone, and every byte after a lead byte of each kind: C2 and DF
\* (two bytes), E0 and E1 (three bytes), F0 and F4 (four bytes)
Bytes == 0..255

LeadBytes == {194, 223, 224, 225, 240, 244}

ByteSeqs == {<<b>> : b \in Bytes} \cup {<<l, b>> : l \in LeadBytes, b \in Bytes}

Utf8Jobs ==
    { Job("utf8", b, <<>>, UTF8Encoder_new, UTF8Decoder_new, UTF8Decoder_new, b) :
        b \in Utf8Prefixes \cup SeqsUpTo(OverlongBytes, MaxRest)
                 \cup ByteSeqs }

\* an encoder and the decoder that reads it
Codec(enc, dec) == [encoder |-> enc, decoder |-> dec]

Codecs ==
    { Codec(UTF16Encoder_new, UTF16Decoder_new),
      Codec(UTF16BEEncoder_new, UTF16BEDecoder_new),
      Codec(UTF16LEEncoder_new, UTF16LEDecoder_new),
      Codec(UTF32Encoder_new, UTF32Decoder_new),
      Codec(UTF32BEEncoder_new, UTF32BEDecoder_new),
      Codec(UTF32LEEncoder_new, UTF32LEDecoder_new) }

\* scalar values on both sides of the surrogate range and above U+FFFF:
\* 'm', U+D7FF, U+E000, U+FFFF, U+10000, U+1D11E, U+10FFFF
Chars == {109, 55295, 57344, 65535, 65536, 119070, 1114111}

RoundTripJobs ==
    { Job("roundtrip", cs, <<>>, k.encoder, k.decoder, k.decoder, Encoded(k.encoder, cs)) :
        k \in Codecs, cs \in SeqsUpTo(Chars, MaxChars) }

\* 16-bit units: high surrogates, low surrogates, and units that are neither
Highs == 55296..56319
Lows  == 56320..57343

SomeHighs == {55296, 55348, 56319}
SomeLows  == {56320, 56606, 57343}
Ordinary  == {0, 109, 55295, 57344, 65535}

\* every high surrogate before some low ones, every low surrogate after some
\* high ones, and the short sequences over some units of each kind
UnitSeqs ==
    {<<h, l>> : h \in Highs, l \in SomeLows}
        \cup {<<h, l>> : h \in SomeHighs, l \in Lows}
        \cup SeqsUpTo(SomeHighs \cup SomeLows \cup Ordinary, MaxChars)

Utf16Jobs ==
    { Job("utf16", u, <<>>, UTF16Encoder_new, UTF16Decoder_new, UTF16Decoder_new, u) :
        u \in UnitSeqs }

\* groups of four bytes, written from the most significant byte down: values
\* around the surrogates (D7FF, D800, DFFF, E000), around 10FFFF, and large
\* ones; the top byte stays below 0x80
Groups ==
    { <<t, a, b, c>> : t \in {0, 127}, a \in {0, 16, 17},
                       b \in {0, 215, 216, 223, 224, 255}, c \in {0, 65, 255} }

Reversed(g) == [i \in 1..Len(g) |-> g[Len(g) + 1 - i]]

\* a group, what is left of it when the end is cut off, and a group before
\* the bytes of 'A' or before one more byte
GroupSeqs(order) ==
    LET gs == {IF order = "BE" THEN g ELSE Reversed(g) : g \in Groups}
        a  == IF order = "BE" THEN <<0, 0, 0, 65>> ELSE <<65, 0, 0, 0>>
    IN  Prefixes(gs) \cup {g \o a : g \in gs} \cup {g \o <<65>> : g \in gs}

Utf32Jobs ==
    { Job("utf32", b, <<>>, UTF32BEEncoder_new, UTF32BEDecoder_new, UTF32BEDecoder_new, b) :
        b \in GroupSeqs("BE") }
    \cup
    { Job("utf32", b, <<>>, UTF32LEEncoder_new, UTF32LEDecoder_new, UTF32LEDecoder_new, b) :
        b \in GroupSeqs("LE") }

DriveJobs ==
    UNION { { Job("drive", in, <<>>, <<>>, <<>>, cfg.conv, in) :
                in \in SeqsUpTo(cfg.items, MaxRun) } : cfg \in Configs }

\* ['a', 'b', 'c'] of the example, and a shorter sequence
ExactPatterns == {<<97, 98, 99>>, <<97, 98>>}

ExactJobs ==
    { Job("exact", in, p, <<>>, <<>>, ExactConverter_new(p), in) :
        p \in ExactPatterns, in \in SeqsUpTo({97, 98, 99}, MaxRest) }

Jobs == PrefixJobs \cup Utf8Jobs \cup RoundTripJobs \cup ExactJobs \cup Utf16Jobs
            \cup Utf32Jobs \cup DriveJobs

Collectors == {"iter", "tryiter", "stream", "trystream"}

PipelineInit ==
    /\ driver \in Collectors
    /\ \E job \in Jobs :
          /\ conv = job.conv
          /\ src = AsSource(job.src)
          /\ run = job
    /\ buffer = <<>>
    /\ ret = RetStart
    /\ events = <<>>
    /\ pre = [buffer |-> <<>>, src |-> src, conv |-> conv, ret |-> RetStart]
    /\ extra = 0
    /\ pend = 0  \* the collected source is ready whenever it is polled
    /\ finalized = 0
    /\ yielded = <<>>
    /\ appended = <<>>

\* the collection is over: the last call's answer ended it
Finished == ret # RetStart /\ Ends(ret, pre.buffer, pre.src)

\* the collector calls the driver until the collection is over
CollectIterator    == ~Finished /\ IteratorNext
CollectTryIterator == ~Finished /\ TryIteratorNext
CollectStream      == ~Finished /\ StreamPollNext
CollectTryStream   == ~Finished /\ TryStreamPollNext

PipelineNext ==
    \/ CollectIterator
    \/ CollectTryIterator
    \/ CollectStream
    \/ CollectTryStream

Pipeline == PipelineInit /\ [][PipelineNext]_vars


-----------------------------------------------------------------------------
(* A caller that never gives up: `while let Some(x) = it.next()` on the     *)
(* synchronous drivers, and an executor on the asynchronous ones, which     *)
(* polls a task again only after a wake-up.  The source registers the       *)
(* waker when it answers Poll::Pending and wakes the task later; the        *)
(* drivers themselves never touch the waker (stream.rs, trystream.rs).      *)
(* Calls are not counted here: they go on as long as the caller wants.      *)

\* the converters of the crate: those of Configs that hold no UserConverter,
\* whose call counts would grow without end
OfCrate(c) ==
    /\ c.kind # "UserConverter"
    /\ c.kind = "ChainedConverter" =>
          (c.first.kind # "UserConverter" /\ c.second.kind # "UserConverter")

CrateConfigs == {cfg \in Configs : OfCrate(cfg.conv)}

RepeatedInit ==
    /\ driver \in Collectors
    /\ \E cfg \in CrateConfigs :
          /\ conv = cfg.conv
          /\ src \in SeqsUpTo(Elements(driver, cfg.items), MaxHeld)
    /\ buffer = <<>>
    /\ ret = RetStart
    /\ events = <<>>
    /\ pre = [buffer |-> <<>>, src |-> src, conv |-> conv, ret |-> RetStart]
    /\ extra = 0
    /\ pend = IF Async(driver) THEN MaxPend ELSE 0
    /\ finalized = 0
    /\ run = [task |-> "next", data |-> <<>>]
    /\ yielded = <<>>
    /\ appended = <<>>

\* the effect of one call on the driver; of the calls made with the source
\* exhausted and the buffer empty, which have no end here, extra keeps the
\* parity
Repeat(d) ==
    /\ buffer' = d.buffer
    /\ src' = d.src
    /\ conv' = d.conv
    /\ ret' = d.ret
    /\ events' = d.events
    /\ pre' = [buffer |-> buffer, src |-> src, conv |-> conv, ret |-> ret]
    /\ extra' = IF Idle THEN 1 - extra ELSE extra
    /\ UNCHANGED <<driver, finalized, run, yielded, appended>>

\* the last poll left a wake-up behind: the source answered Poll::Pending
WakeArranged ==
    \E i \in 1..Len(events) : events[i].op = "pull" /\ events[i].got = "pending"

\* the executor polls at first, after a ready item, and after a wake-up
Woken == ret # RetPending \/ WakeArranged

RepeatNext ==
    /\ driver = "iter"
    /\ ret # RetNone
    /\ Repeat(ConvertedIterator_next(buffer, src, conv))
    /\ UNCHANGED pend

RepeatTryNext ==
    /\ driver = "tryiter"
    /\ ret # RetNone
    /\ Repeat(ConvertedTryIterator_next(buffer, src, conv))
    /\ UNCHANGED pend

RepeatPoll ==
    /\ driver = "stream"
    /\ ret # RetNone
    /\ Woken
    /\ \E pending \in BOOLEAN :
          /\ pending => (pend > 0 /\ buffer = <<>>)
          /\ Repeat(ConvertedStream_poll_next(buffer, src, conv, pending))
          /\ pend' = IF pending THEN pend - 1 ELSE pend

RepeatTryPoll ==
    /\ driver = "trystream"
    /\ ret # RetNone
    /\ Woken
    /\ \E pending \in BOOLEAN :
          /\ pending => (pend > 0 /\ buffer = <<>>)
          /\ Repeat(ConvertedTryStream_poll_next(buffer, src, conv, pending))
          /\ pend' = IF pending THEN pend - 1 ELSE pend

RepeatedNext ==
    \/ RepeatNext
    \/ RepeatTryNext
    \/ RepeatPoll
    \/ RepeatTryPoll

\* the caller makes its next call, the executor its next poll, when it can
Repeated ==
    /\ RepeatedInit
    /\ [][RepeatedNext]_vars
    /\ WF_vars(RepeatedNext)

-----------------------------------------------------------------------------
(* The byte decoders that keep count, fed raw bytes by a caller of the      *)
(* trait, who may call finalize at any point.  The last arm of UTF8Decoder   *)
(* makes the char with char::from_u32_unchecked (utf8.rs), whose behaviour   *)
(* is undefined for a value that is no scalar: what such a call does is      *)
(* chosen here, call by call, among what the builds do.  The sources of      *)
(* Spec, Pipeline and Repeated never lead the decoder there                  *)
(* (UncheckedGetsScalars).                                                   *)

\* a Unicode scalar value: no surrogate, at most 0x10FFFF
ScalarValue(v) == v <= 1114111 /\ ~(55296 <= v /\ v <= 57343)

\* char::from_u32_unchecked(v): the char of a scalar value; of any other
\* value, a char that holds the value as it is (the precondition is not
\* checked), or no char at all: with debug assertions the check of the
\* precondition aborts the process
char_from_u32_unchecked(v) ==
    IF ScalarValue(v) THEN {[abort |-> FALSE, char |-> v]}
    ELSE {[abort |-> FALSE, char |-> v], [abort |-> TRUE, char |-> 0]}

\* the call did not return: the process is gone
RetAborted == [tag |-> "Aborted", val |-> 0, err |-> <<>>]

\* in the runs of the other specifications char::from_u32_unchecked is handed
\* scalar values only
UncheckedGetsScalars ==
    \A i \in 1..Len(events) :
        (events[i].op = "convert" /\ events[i].c.kind = "UTF8Decoder") =>
            \A k \in 1..Len(events[i].out) : ScalarValue(events[i].out[k])

\* the lead bytes ED and F4 with the first continuation bytes that take them
\* past the scalar values (ED A0, F4 90), a further continuation byte, 'A'
EdgeBytes == {65, 128, 144, 160, 237, 244}

\* bytes of UTF-32 groups: of 'A', of values above 0x10FFFF
GroupBytes == {0, 65, 127}

DecodingInit ==
    /\ driver = "direct"
    /\ \E cfg \in {Cfg(UTF8Decoder_new, EdgeBytes),
                    Cfg(UTF32BEDecoder_new, GroupBytes),
                    Cfg(UTF32LEDecoder_new, GroupBytes)} :
          /\ conv = cfg.conv
          /\ src \in SeqsUpTo({SrcOk(b) : b \in cfg.items}, MaxRest)
    /\ buffer = <<>>
    /\ ret = RetStart
    /\ events = <<>>
    /\ pre = [buffer |-> <<>>, src |-> src, conv |-> conv, ret |-> RetStart]
    /\ extra = 0
    /\ pend = 0
    /\ finalized = 0
    /\ run = [task |-> "next", data |-> <<>>]
    /\ yielded = <<>>
    /\ appended = <<>>

\* the chars the call may extend the sink with: the arm of the last
\* continuation byte goes through char::from_u32_unchecked
Emitted(self, r) ==
    IF self.kind = "UTF8Decoder" /\ self.remain # 0 /\ r.ok /\ r.n = 1
    THEN char_from_u32_unchecked(r.self.codepoint)
    ELSE {[abort |-> FALSE, char |-> r.out[k]] : k \in 1..Len(r.out)}

\* convert on the next byte, into a fresh sink
DecodeByte ==
    /\ ret # RetAborted
    /\ src # <<>>
    /\ LET item == Head(src).item
           r    == convert(conv, item)
       IN  \/ /\ r.out = <<>>
              /\ Apply(Done(<<>>, Tail(src), r.self,
                            IF r.ok THEN RetOk(r.n) ELSE RetErr(r.err),
                            <<EvConvert(item, r, conv, <<>>)>>))
           \/ \E ch \in Emitted(conv, r) :
                 LET made == [r EXCEPT !.out = <<ch.char>>]
                 IN  IF ch.abort
                     THEN Apply(Done(<<>>, Tail(src), r.self, RetAborted, <<>>))
                     ELSE Apply(Done(made.out, Tail(src), r.self, RetOk(r.n),
                                     <<EvConvert(item, made, conv, made.out)>>))
    /\ UNCHANGED pend

\* finalize, at any point
DecodeFinalize ==
    /\ ret # RetAborted
    /\ CallFinalize

DecodingNext ==
    \/ DecodeByte
    \/ DecodeFinalize

Decoding == DecodingInit /\ [][DecodingNext]_vars

-----------------------------------------------------------------------------
(* Properties.  They read the record of the last call (events, pre, ret);  *)
(* as invariants they speak of every call of every reachable run.           *)

Sync(d)     == d \in {"iter", "tryiter"}
IsDriver(d) == d # "direct"

EvIdx == 1..Len(events)

IsConvert(e)  == e.op = "convert"
IsFinalize(e) == e.op = "finalize"
IsPull(e)     == e.op = "pull"

\* convert returned Ok(0) and is_ended() is then false / true
OkZeroOpen(e)  == IsConvert(e) /\ e.ok /\ e.n = 0 /\ ~e.ended
OkZeroEnded(e) == IsConvert(e) /\ e.ok /\ e.n = 0 /\ e.ended

\* the error a driver of kind d surfaces for a converter's error e
Surfaced(d, e) == IF Fallible(d) THEN <<"Conversion">> \o e ELSE e

\* C1: in the synchronous drivers a call that finds the buffer non-empty pops
\* its front and touches neither source nor converter; a convert call that
\* appended n > 0 outputs ends its call, which yields the first of them and
\* leaves the other n - 1, in order, as the buffer.  By induction the n
\* outputs are yielded by n successive calls with no pull in between.
C1_BufferDraining ==
    (Sync(driver) /\ ret.tag # "Start") =>
        /\ pre.buffer # <<>> =>
              /\ events = <<>>
              /\ src = pre.src
              /\ conv = pre.conv
              /\ ret = RetOk(Head(pre.buffer))
              /\ buffer = Tail(pre.buffer)
        /\ \A i \in EvIdx :
              (IsConvert(events[i]) /\ events[i].out # <<>>) =>
                  /\ i = Len(events)
                  /\ ret = RetOk(Head(events[i].out))
                  /\ buffer = Tail(events[i].out)

\* C1 witness: the third of four outputs of one convert call is being yielded
C1_Witness ==
    /\ Sync(driver)
    /\ Len(pre.buffer) = 2
    /\ pre.buffer[1] # pre.buffer[2]
    /\ ret = RetOk(pre.buffer[1])
    /\ pre.src # <<>>

\* C2: a driver invokes its converter's finalize exactly once: never twice,
\* and once the source has reported exhaustion, exactly once.
C2_FinalizeExactlyOnce ==
    IsDriver(driver) =>
        /\ finalized <= 1
        /\ (\E i \in EvIdx : IsPull(events[i]) /\ events[i].got = "none") => finalized = 1

\* C3: when convert returns Ok(count), exactly count items were appended.
C3_CountIsAppended ==
    \A i \in EvIdx :
        (IsConvert(events[i]) /\ events[i].ok) => events[i].n = Len(events[i].out)

\* C4: the outputs of a successful convert call, as returned and as appended,
\* lie within the bounds the same converter's size_hint declares.
C4_WithinSizeHint ==
    \A i \in EvIdx :
        (IsConvert(events[i]) /\ events[i].ok) =>
            LET hint == size_hint(events[i].c)
                e    == events[i]
            IN  /\ hint.min <= e.n /\ hint.min <= Len(e.out)
                /\ hint.max # <<>> => (e.n <= hint.max[1] /\ Len(e.out) <= hint.max[1])

\* C5: in the synchronous drivers, a convert that returns Ok(0) with the
\* converter not ended never ends the call: the source is pulled again at once,
\* so whatever the call returns is returned on behalf of a later pull.
C5_OkZeroPullsAgain ==
    Sync(driver) =>
        \A i \in EvIdx :
            OkZeroOpen(events[i]) =>
                /\ i < Len(events)
                /\ IsPull(events[i + 1])
                /\ events[i + 1].b = events[i].b
                /\ events[i + 1].c = events[i].c

\* C5 witness: a call that converted an item to Ok(0) and went on to yield an
\* output of a later item
C5_Witness ==
    /\ Sync(driver)
    /\ Len(events) >= 4
    /\ OkZeroOpen(events[2])
    /\ ret.tag = "Ok"

\* C6: in every driver, a convert that returns Ok(0) with is_ended() then true
\* is followed by finalize and nothing else: no further pull, None when
\* finalize succeeds and its error otherwise.
C6_OkZeroEndedFinalizes ==
    IsDriver(driver) =>
        \A i \in EvIdx :
            OkZeroEnded(events[i]) =>
                /\ Len(events) = i + 1
                /\ IsFinalize(events[i + 1])
                /\ events[i + 1].ok => ret = RetNone
                /\ ~events[i + 1].ok => ret = RetErr(Surfaced(driver, events[i + 1].err))
                /\ Len(src) = Len(pre.src) -
                       Cardinality({j \in EvIdx : IsPull(events[j]) /\ events[j].got = "item"})

\* C6 witness: the converter ended while the source still held items
C6_Witness ==
    /\ IsDriver(driver)
    /\ Len(events) >= 2
    /\ OkZeroEnded(events[Len(events) - 1])
    /\ ret = RetNone
    /\ src # <<>>

\* C7: once is_ended() is true it stays true across every convert and finalize,
\* and every convert made then returns Ok(0) and appends nothing.
C7_EndedIsFinal ==
    /\ is_ended(pre.conv) => is_ended(conv)
    /\ \A i \in EvIdx :
          events[i].was_ended =>
              /\ events[i].ended
              /\ IsConvert(events[i]) =>
                    (events[i].ok /\ events[i].n = 0 /\ events[i].out = <<>>)

\* C7 witness: convert called on a chained converter that had already ended
C7_Witness ==
    /\ conv.kind = "ChainedConverter"
    /\ \E i \in EvIdx : IsConvert(events[i]) /\ events[i].was_ended

\* C8: in the fallible-source drivers an error item carries the tag of its
\* origin, and no error of the source, of convert or of finalize is dropped.
C8_ErrorsTaggedByOrigin ==
    Fallible(driver) =>
        /\ \A i \in EvIdx :
              (IsPull(events[i]) /\ events[i].got = "err") =>
                  (i = Len(events) /\ ret = RetErr(<<"Stream">> \o events[i].err))
        /\ \A i \in EvIdx :
              ((IsConvert(events[i]) \/ IsFinalize(events[i])) /\ ~events[i].ok) =>
                  (i = Len(events) /\ ret = RetErr(<<"Conversion">> \o events[i].err))
        /\ ret.tag = "Err" => (events # <<>> /\ ret.err[1] \in {"Stream", "Conversion"})

\* C8 witness: a source error surfaced by the synchronous fallible driver
C8_Witness ==
    /\ driver = "tryiter"
    /\ ret = RetErr(<<"Stream", "SourceError">>)

\* the converter and the buffer as they were just before event i of the call
ConvBefore(i) == IF i = 1 THEN pre.conv ELSE events[i - 1].c
BufBefore(i)  == IF i = 1 THEN pre.buffer ELSE events[i - 1].b

\* C9 as stated: a call in which the source yields an error calls neither
\* convert nor finalize and leaves converter and buffer as the call found them.
C9_SourceErrorCallTouchesNothing ==
    (Fallible(driver) /\ \E i \in EvIdx : IsPull(events[i]) /\ events[i].got = "err") =>
        /\ \A j \in EvIdx : ~IsConvert(events[j]) /\ ~IsFinalize(events[j])
        /\ conv = pre.conv
        /\ buffer = pre.buffer

\* C9 amended: once the source has yielded an error the call returns without
\* calling convert or finalize, and converter and buffer are left as they were
\* when the error was pulled; in ConvertedTryStream, which pulls at most once
\* per poll, the whole poll calls neither and changes neither.
C9_SourceErrorTouchesNothingAfter ==
    Fallible(driver) =>
        \A i \in EvIdx :
            (IsPull(events[i]) /\ events[i].got = "err") =>
                /\ i = Len(events)
                /\ conv = ConvBefore(i)
                /\ buffer = BufBefore(i)
                /\ CountFinalize(events) = 0
                /\ \A j \in 1..(i - 1) : IsConvert(events[j]) => OkZeroOpen(events[j])
                /\ driver = "trystream" => (i = 1 /\ conv = pre.conv /\ buffer = pre.buffer)

\* C9 witness: the synchronous driver converted an item to Ok(0) and then, in
\* the same call, pulled a source error
C9_Witness ==
    /\ driver = "tryiter"
    /\ Len(events) = 3
    /\ OkZeroOpen(events[2])
    /\ events[3].got = "err"
    /\ conv # pre.conv

\* what C10 says of a conversion error: it is yielded, once, as the call's Err
\* item, and the call after an Err item pulls the source again and converts
\* the item it gets
ErrorDoesNotEnd ==
    /\ \A i \in EvIdx :
          (IsConvert(events[i]) /\ ~events[i].ok) =>
              (i = Len(events) /\ ret = RetErr(Surfaced(driver, events[i].err)))
    /\ (pre.ret.tag = "Err" /\ ret.tag # "Start") =>
          /\ pre.buffer = <<>>
          /\ events # <<>>
          /\ IsPull(events[1])
          /\ events[1].got = "item" =>
                /\ events[1].item = Head(pre.src).item
                /\ Len(events) >= 2
                /\ IsConvert(events[2])
                /\ events[2].item = events[1].item

C36_NoneOnlyAtEnd ==
    (IsDriver(driver) /\ ret = RetNone) =>
        /\ pre.buffer = <<>>
        /\ Len(events) >= 2
        /\ LET last == events[Len(events)]
               prev == events[Len(events) - 1]
           IN  /\ IsFinalize(last) /\ last.ok
               /\ \/ IsPull(prev) /\ prev.got = "none" /\ src = <<>>
                  \/ OkZeroEnded(prev)
        /\ src # <<>> => is_ended(conv)

IsChain(c) == c.kind = "ChainedConverter"

\* C37: when a chain is finalized before its first converter has ended,
\* ChainedConverter.finalize reports an error whenever first.finalize() would,
\* so a driver over a chain never ends with None while the first converter
\* holds incomplete input.
C37_ChainFinalizesFirst ==
    /\ \A i \in EvIdx :
          (IsFinalize(events[i]) /\ IsChain(events[i].c)
             /\ ~events[i].c.first_ended /\ ~finalize(events[i].c.first).ok) =>
                ~events[i].ok
    /\ (IsDriver(driver) /\ ret = RetNone /\ IsChain(conv) /\ ~conv.first_ended) =>
          finalize(conv.first).ok

\* the items the driver still yields when it is collected from here
StillYielded ==
    CHOOSE n \in { Cardinality({i \in DOMAIN items : items[i] # RetNone}) :
                     items \in {Collected(driver, buffer, src, conv, <<>>)} } : TRUE

\* C39: in every state of a driver the number of items it will still yield
\* is at least the lower bound of its size_hint and at most the upper bound,
\* when there is one; also with outputs in the buffer, over a
\* ChainedConverter, and when finalize will fail.
C39_SizeHintSound ==
    IsDriver(driver) =>
        LET hint == ConvertedIterator_size_hint(src, conv)
            left == StillYielded
        IN  /\ hint.min <= left
            /\ hint.max # <<>> => left <= hint.max[1]

\* the result r of a call on one side of a chain, as event e of the chain
\* reports it: the same count, items and outcome, the error under tag
SameResult(e, r, tag) ==
    /\ e.ok = r.ok
    /\ e.ok => (e.n = r.n /\ e.out = r.out)
    /\ ~e.ok => e.err = <<tag>> \o r.err

\* C12: first_ended never goes back to false, and once it is true a convert or
\* finalize of the chain leaves the first converter exactly as it was (a
\* converter that counts its calls shows none) and is the second converter's
\* call: its count, items, error under the tag Second, and is_ended.
C12_FirstEndedIsFinal ==
    \A i \in EvIdx :
        LET before == ConvBefore(i)
            e      == events[i]
        IN  (IsChain(before) /\ before.first_ended) =>
                /\ e.c.first_ended
                /\ e.c.first = before.first
                /\ e.ended = is_ended(e.c.second)
                /\ IsConvert(e) =>
                      LET r == convert(before.second, e.item)
                      IN  SameResult(e, r, "Second") /\ e.c.second = r.self
                /\ IsFinalize(e) =>
                      LET f == finalize(before.second)
                      IN  /\ e.ok = f.ok
                          /\ ~e.ok => e.err = ChainedError_Second(f.err)
                          /\ e.c.second = f.self

\* C12 witness: an item converted by the second converter of a chain whose
\* first converter, one that counts its calls, had ended before
C12_Witness ==
    \E i \in EvIdx :
        /\ IsConvert(events[i])
        /\ IsChain(ConvBefore(i))
        /\ ConvBefore(i).first_ended
        /\ ConvBefore(i).first.kind = "UserConverter"
        /\ ConvBefore(i).first.converts > 0
        /\ events[i].out # <<>>

\* C13: while first_ended is false every item goes to the first converter and
\* only to it, its errors tagged First.  When it answers Ok(0) and has ended,
\* first_ended is set and first.finalize() is called, once: if that fails the
\* call returns the error tagged First and the second converter is not called;
\* otherwise the same item is converted by the second converter in the same
\* call, whose result (errors tagged Second) is the call's result.  Over the
\* life of the chain first.finalize() is called once if first_ended, else never.
C13_ChainTransition ==
    /\ \A i \in EvIdx :
          LET before == ConvBefore(i)
              e      == events[i]
              r1     == convert(before.first, e.item)
              f      == finalize(r1.self)
              r2     == convert(before.second, e.item)
          IN  (IsChain(before) /\ ~before.first_ended /\ IsConvert(e)) =>
                  IF r1.ok /\ r1.n = 0 /\ is_ended(r1.self)
                  THEN /\ e.c.first_ended
                       /\ e.c.first = f.self
                       /\ ~f.ok => (/\ ~e.ok
                                    /\ e.err = ChainedError_First(f.err)
                                    /\ e.out = <<>>
                                    /\ e.c.second = before.second)
                       /\ f.ok => (SameResult(e, r2, "Second") /\ e.c.second = r2.self)
                  ELSE /\ ~e.c.first_ended
                       /\ e.c.first = r1.self
                       /\ e.c.second = before.second
                       /\ SameResult(e, r1, "First")
    /\ (IsChain(conv) /\ conv.first.kind = "UserConverter") =>
          conv.first.finalizes = IF conv.first_ended THEN 1 ELSE 0

\* C13 witness: the first converter ended on an item and its finalize failed
C13_Witness ==
    \E i \in EvIdx :
        /\ IsConvert(events[i])
        /\ IsChain(ConvBefore(i))
        /\ ~ConvBefore(i).first_ended
        /\ events[i].c.first_ended
        /\ events[i].c.first.kind = "UserConverter"
        /\ events[i].c.first.finalizes = 1
        /\ ~events[i].ok
        /\ events[i].err = ChainedError_First(UserError)


\* a high surrogate and a low surrogate, as ranges of 16-bit units
HighSurrogate(u) == 55296 <= u /\ u <= 56319
LowSurrogate(u)  == 56320 <= u /\ u <= 57343

\* event i is a convert of UTF16Decoder that found no unit pending
FreshUnit(i) ==
    /\ IsConvert(events[i])
    /\ ConvBefore(i).kind = "UTF16Decoder"
    /\ ConvBefore(i).buf = <<>>

\* C19: in UTF16Decoder a low surrogate with no high surrogate pending is
\* an error of that very convert call; a high surrogate with none pending is
\* Ok(0), and when the source ends right after it finalize fails and the
\* driver yields that error; finalize fails exactly when a high surrogate is
\* pending.
C19_Utf16Surrogates ==
    \A i \in EvIdx :
        /\ (FreshUnit(i) /\ LowSurrogate(events[i].item)) =>
              /\ ~events[i].ok
              /\ events[i].err = UTF16EncodingError
              /\ IsDriver(driver) => i = Len(events) /\ ret.tag = "Err"
        /\ (FreshUnit(i) /\ HighSurrogate(events[i].item)) =>
              /\ events[i].ok /\ events[i].n = 0 /\ events[i].out = <<>>
              /\ (i + 1 <= Len(events) /\ IsPull(events[i + 1])
                    /\ events[i + 1].got = "none") =>
                    /\ i + 2 = Len(events)
                    /\ IsFinalize(events[i + 2])
                    /\ ~events[i + 2].ok
                    /\ ret.tag = "Err"
        /\ (IsFinalize(events[i]) /\ ConvBefore(i).kind = "UTF16Decoder") =>
              /\ ~events[i].ok <=> ConvBefore(i).buf # <<>>
              /\ events[i].ok \/ HighSurrogate(ConvBefore(i).buf[1])

\* C19 witness: the iterator took the high surrogate D834 as the last unit,
\* convert returned Ok(0), the source ended and finalize failed
C19_Witness ==
    /\ driver = "iter"
    /\ Len(events) = 4
    /\ FreshUnit(2) /\ events[2].item = 55348 /\ events[2].ok /\ events[2].n = 0
    /\ IsPull(events[3]) /\ events[3].got = "none"
    /\ IsFinalize(events[4]) /\ ~events[4].ok
    /\ ret = RetErr(UTF16EncodingError)


\* the source answered Poll::Pending during the last call
SourcePending == \E i \in EvIdx : IsPull(events[i]) /\ events[i].got = "pending"

\* C23: poll_next of the asynchronous drivers returns Poll::Pending only when
\* the source answered Poll::Pending during that poll; a poll in which the
\* source gave an item or its end never returns Poll::Pending.
C23_PendingOnlyFromSource ==
    (Async(driver) /\ ret = RetPending) =>
        /\ SourcePending
        /\ \A i \in EvIdx : IsPull(events[i]) => events[i].got = "pending"

\* C24: when the source answers Poll::Pending, poll_next returns Poll::Pending,
\* the buffer and the converter are as the poll found them, and neither convert
\* nor finalize was called.
C24_PendingLeavesStateAlone ==
    (Async(driver) /\ SourcePending) =>
        /\ ret = RetPending
        /\ buffer = pre.buffer
        /\ conv = pre.conv
        /\ src = pre.src
        /\ \A i \in EvIdx : ~IsConvert(events[i]) /\ ~IsFinalize(events[i])

\* C24 witness: a decoder holding a pending lead byte is polled while the
\* source is pending, and holds it still
C24_Witness ==
    /\ driver = "stream"
    /\ SourcePending
    /\ ret = RetPending
    /\ conv.kind = "UTF8Decoder"
    /\ conv.remain = 1
    /\ conv = pre.conv


\* C30: finalize of UTF16BEDecoder and of UTF16LEDecoder fails exactly when a
\* lone byte is pending or the inner decoder holds a high surrogate, and
\* succeeds when neither is, a fresh decoder included.
C30_Utf16BytesFinalize ==
    \A i \in EvIdx :
        (IsFinalize(events[i])
            /\ ConvBefore(i).kind \in {"UTF16BEDecoder", "UTF16LEDecoder"}) =>
            (~events[i].ok <=>
                (ConvBefore(i).byte # <<>> \/ ConvBefore(i).inner.buf # <<>>))

-----------------------------------------------------------------------------
(* Properties of the collected runs (specification Pipeline) *)

\* an answer of the second converter driven alone, as the chain reports it:
\* its errors come wrapped in ChainedError::Second
AsSecond(d, item) ==
    IF item.tag # "Err" THEN item
    ELSE IF Fallible(d)
    THEN RetErr(CombinedError_Conversion(ChainedError_Second(Tail(item.err))))
    ELSE RetErr(ChainedError_Second(item.err))

\* what the same driver yields when the decoder alone is driven over the data
DecoderAlone == Collect(driver, run.decoder, AsSource(run.data))

\* C11: chain(ExactConverter(p), D) driven over p followed by rest yields what
\* D alone yields over rest: the same items and errors in the same order (the
\* errors of D wrapped as the chain's second-side errors) and the same end.
C11_PrefixThenDecode ==
    run.task = "prefix" =>
        LET alone == DecoderAlone
        IN  /\ Len(yielded) <= Len(alone)
            /\ \A i \in 1..Len(yielded) : yielded[i] = AsSecond(driver, alone[i])
            /\ Finished => Len(yielded) = Len(alone)

\* C11 witness: FF FE 3D D8 A3 DC through chain(ExactConverter([FF, FE]),
\* UTF16LEDecoder) has yielded U+1F4A3 and then None
C11_Witness ==
    /\ run.task = "prefix"
    /\ driver = "iter"
    /\ run.pattern = <<255, 254>>
    /\ run.data = <<61, 216, 163, 220>>
    /\ Finished
    /\ yielded = <<RetOk(128163), RetNone>>

\* C14: over well-formed UTF-8 the decoder yields only Ok characters and then
\* None, and the encoder turns those characters back into the same bytes.
C14_Utf8RoundTrip ==
    (run.task = "utf8" /\ run.data \in WellFormedUtf8) =>
        /\ \A i \in 1..Len(yielded) :
              \/ yielded[i].tag = "Ok"
              \/ (i = Len(yielded) /\ Finished /\ yielded[i] = RetNone)
        /\ Finished =>
              /\ yielded[Len(yielded)] = RetNone
              /\ Encoded(run.encoder, Values(Front(yielded))) = run.data

\* the place in run.data of the item of event i of the last call
ItemIndex(i) ==
    Len(run.data) - Len(pre.src)
        + Cardinality({j \in 1..i : IsPull(events[j]) /\ events[j].got = "item"})

\* the place of the byte that leads the UTF-8 sequence the byte at p belongs
\* to: the nearest byte at or before p that is not a continuation byte
LeadIndex(p) ==
    CHOOSE q \in 0..p :
        /\ q = 0 \/ run.data[q] < 128 \/ run.data[q] >= 192
        /\ \A k \in (q + 1)..p : 128 <= run.data[k] /\ run.data[k] < 192

\* the overlong forms of '/'
OverlongSlash == {<<192, 175>>, <<224, 128, 175>>, <<240, 128, 128, 175>>}

\* C15: the decoder never emits a character for an overlong form: a character
\* emitted at the end of a 2-byte sequence is not below 0x80, of a 3-byte
\* sequence not below 0x800, of a 4-byte sequence not below 0x10000; C0 AF,
\* E0 80 AF and F0 80 80 AF each produce an error and never '/'.
C15_OverlongRejected ==
    run.task = "utf8" =>
        /\ \A i \in EvIdx :
              (IsConvert(events[i]) /\ events[i].ok /\ events[i].out # <<>>) =>
                  LET n == ItemIndex(i) - LeadIndex(ItemIndex(i)) + 1
                      c == events[i].out[1]
                  IN  /\ n = 2 => c >= 128
                      /\ n = 3 => c >= 2048
                      /\ n = 4 => c >= 65536
        /\ run.data \in OverlongSlash =>
              /\ \A i \in 1..Len(yielded) : yielded[i] # RetOk(47)
              /\ Finished => \E i \in 1..Len(yielded) : yielded[i].tag = "Err"

\* the bytes of run.data end inside a multi-byte character
Truncated == run.data \in Utf8Prefixes /\ run.data \notin WellFormedUtf8

\* C16: UTF8Decoder.finalize fails exactly when continuation bytes are
\* pending; a source that ends inside a multi-byte character makes the driver
\* yield the finalize error, one that ends between characters makes it yield
\* None.
C16_Utf8FinalizeIffPending ==
    run.task = "utf8" =>
        /\ \A i \in EvIdx :
              IsFinalize(events[i]) =>
                  /\ ~events[i].ok <=> ConvBefore(i).remain # 0
                  /\ ~events[i].ok => ret.tag = "Err"
        /\ (Finished /\ Truncated) =>
              /\ ret.tag = "Err"
              /\ \E i \in EvIdx : IsFinalize(events[i]) /\ ~events[i].ok
        /\ (Finished /\ run.data \in WellFormedUtf8) => ret = RetNone

\* C16 witness: E3 81 (the first two bytes of U+3042) and then the end of the
\* source: the end-of-input call has yielded the finalize error
C16_Witness ==
    /\ run.task = "utf8"
    /\ run.data = <<227, 129>>
    /\ Finished
    /\ pre.conv.remain = 1
    /\ ret.tag = "Err"
    /\ \E i \in EvIdx : IsFinalize(events[i]) /\ ~events[i].ok

\* the run decodes what run.encoder made of the characters run.data with a
\* decoder of one of the given kinds
Decodes(kinds) == run.task = "roundtrip" /\ run.decoder.kind \in kinds

\* what has been yielded so far is the characters of run.data as Ok items, in
\* order, and after the last of them None; the run ends with that None
YieldsData ==
    /\ Len(yielded) <= Len(run.data) + 1
    /\ \A i \in 1..Len(yielded) :
          yielded[i] = IF i <= Len(run.data) THEN RetOk(run.data[i]) ELSE RetNone
    /\ Finished => Len(yielded) = Len(run.data) + 1

\* C17: UTF16Encoder and then UTF16Decoder yield the original characters as Ok
\* items and then None, surrogate pairs included.
C17_Utf16RoundTrip == Decodes({"UTF16Decoder"}) => YieldsData

\* C17 witness: U+1D11E and 'm' went through a surrogate pair and a single
\* unit and came back
C17_Witness ==
    /\ Decodes({"UTF16Decoder"})
    /\ run.data = <<119070, 109>>
    /\ Finished
    /\ yielded = <<RetOk(119070), RetOk(109), RetNone>>

\* C18: the byte codecs UTF16BEEncoder/UTF16BEDecoder and
\* UTF16LEEncoder/UTF16LEDecoder yield the original characters as Ok items and
\* then None, with no error item anywhere, the end of the input included.
C18_Utf16BytesRoundTrip == Decodes({"UTF16BEDecoder", "UTF16LEDecoder"}) => YieldsData

\* C20: the 32-bit codec and its big-endian and little-endian byte codecs
\* yield the original characters as Ok items and then None.
C20_Utf32RoundTrip ==
    Decodes({"UTF32Decoder", "UTF32BEDecoder", "UTF32LEDecoder"}) => YieldsData

\* C20 witness: U+10FFFF and 'm' went through four little-endian bytes each
\* and came back
C20_Witness ==
    /\ Decodes({"UTF32LEDecoder"})
    /\ run.data = <<1114111, 109>>
    /\ Finished
    /\ yielded = <<RetOk(1114111), RetOk(109), RetNone>>

\* the first place at which the items data differ from the pattern, 0 when
\* none of the items both have differ
Mismatch ==
    LET d == {i \in 1..Len(run.data) :
                 i <= Len(run.pattern) /\ run.data[i] # run.pattern[i]}
    IN  IF d = {} THEN 0 ELSE CHOOSE i \in d : \A j \in d : i <= j

\* as the driver reports an error of the converter
Conversion(e) == IF Fallible(driver) THEN CombinedError_Conversion(e) ELSE e

\* C21: ExactConverter(p) driven over p yields nothing but the final None;
\* driven over items of which the i-th is the first to differ from p, the
\* first item it yields is UnmatchedError, raised by convert on the i-th item;
\* and no output is ever emitted.
C21_ExactMatch ==
    run.task = "exact" =>
        /\ \A k \in 1..Len(yielded) : yielded[k].tag # "Ok"
        /\ \A k \in EvIdx : events[k].out = <<>>
        /\ buffer = <<>>
        /\ run.data = run.pattern =>
              /\ yielded \in {<<>>, <<RetNone>>}
              /\ Finished => yielded = <<RetNone>>
              /\ \A k \in EvIdx : events[k].ok
        /\ Mismatch # 0 =>
              /\ yielded # <<>> => yielded[1] = RetErr(Conversion(UnmatchedError))
              /\ (Len(yielded) = 1 /\ ret = yielded[1]) =>
                    /\ IsConvert(events[Len(events)])
                    /\ ~events[Len(events)].ok
                    /\ ItemIndex(Len(events)) = Mismatch
              /\ Finished => yielded # <<>>

\* C21 witness: "abc" against ['a', 'b', 'c'] has ended with nothing yielded
\* but None
C21_Witness ==
    /\ run.task = "exact"
    /\ run.pattern = <<97, 98, 99>>
    /\ run.data = <<97, 98, 99>>
    /\ Finished
    /\ yielded = <<RetNone>>

\* C22: when the source ends after ExactConverter has matched only a proper
\* prefix of its pattern, finalize fails and the driver yields that error
\* instead of ending with None.
C22_UnfinishedMatchReported ==
    (run.task = "exact" /\ Finished
        /\ Len(run.data) < Len(run.pattern)
        /\ run.data = SubSeq(run.pattern, 1, Len(run.data))) =>
        /\ ret.tag = "Err"
        /\ \E k \in EvIdx : IsFinalize(events[k]) /\ ~events[k].ok

\* event i is a convert of UTF8Decoder that found continuation bytes pending
Continuing(i) ==
    /\ IsConvert(events[i])
    /\ ConvBefore(i).kind = "UTF8Decoder"
    /\ ConvBefore(i).remain # 0

\* event i is a convert of UTF8Decoder that found none pending
Leading(i) ==
    /\ IsConvert(events[i])
    /\ ConvBefore(i).kind = "UTF8Decoder"
    /\ ConvBefore(i).remain = 0

\* C25: with continuation bytes pending, UTF8Decoder accepts a byte exactly
\* when it lies in [lower, 0xBF], 0xBF included; any other byte is an error of
\* that call.
C25_ContinuationRange ==
    run.task = "utf8" =>
        \A i \in EvIdx :
            Continuing(i) =>
                (events[i].ok <=>
                    (ConvBefore(i).lower <= events[i].item /\ events[i].item <= 191))

\* C26: with none pending, UTF8Decoder classifies the byte: 00..7F is one
\* character, Ok(1); C2..DF, E0..EF, F0..F4 are Ok(0) with 1, 2, 3 bytes
\* pending; any other byte is an error that leaves the decoder as it was.
C26_LeadByteClasses ==
    run.task = "utf8" =>
        \A i \in EvIdx :
            Leading(i) =>
                LET e == events[i]
                    b == e.item
                    starts(k) == e.ok /\ e.n = 0 /\ e.out = <<>> /\ e.c.remain = k
                IN  /\ b <= 127 =>
                          e.ok /\ e.n = 1 /\ e.out = <<b>> /\ e.c.remain = 0
                    /\ (194 <= b /\ b <= 223) => starts(1)
                    /\ (224 <= b /\ b <= 239) => starts(2)
                    /\ (240 <= b /\ b <= 244) => starts(3)
                    /\ ((128 <= b /\ b <= 193) \/ 245 <= b) =>
                          ~e.ok /\ e.out = <<>> /\ e.c = ConvBefore(i)

\* C26 witness: C1, which would lead an overlong form, was refused by a fresh
\* decoder, which stayed fresh
C26_Witness ==
    /\ run.task = "utf8"
    /\ run.data = <<193>>
    /\ Len(yielded) = 1
    /\ Leading(2) /\ events[2].item = 193 /\ ~events[2].ok
    /\ conv = UTF8Decoder_new

\* C27: after UTF8Decoder refuses a continuation byte no byte is pending:
\* finalize called at once succeeds, and the next byte is taken as a lead
\* byte, as a fresh decoder takes it.
C27_ErrorResetsDecoder ==
    run.task = "utf8" =>
        \A i \in EvIdx :
            (Continuing(i) /\ ~events[i].ok) =>
                /\ events[i].c.remain = 0
                /\ UTF8Decoder_finalize(events[i].c).ok
                /\ \A b \in Bytes :
                      LET r == UTF8Decoder_convert(events[i].c, b)
                          f == UTF8Decoder_convert(UTF8Decoder_new, b)
                      IN  r.ok = f.ok /\ r.n = f.n /\ r.out = f.out

\* event i is a convert of UTF16Decoder that found a unit pending
PairedUnit(i) ==
    /\ IsConvert(events[i])
    /\ ConvBefore(i).kind = "UTF16Decoder"
    /\ ConvBefore(i).buf # <<>>

\* C28: UTF16Decoder returns Ok(0) for a high surrogate h, and for the low
\* surrogate l that follows it emits the one character
\* 0x10000 + ((h - 0xD800) << 10) + (l - 0xDC00) and holds nothing pending.
C28_SurrogatePair ==
    run.task = "utf16" =>
        \A i \in EvIdx :
            /\ (FreshUnit(i) /\ HighSurrogate(events[i].item)) =>
                  /\ events[i].ok /\ events[i].n = 0 /\ events[i].out = <<>>
                  /\ events[i].c.buf = <<events[i].item>>
            /\ (PairedUnit(i) /\ LowSurrogate(events[i].item)) =>
                  LET h == ConvBefore(i).buf[1]
                      l == events[i].item
                  IN  /\ HighSurrogate(h)
                      /\ events[i].ok /\ events[i].n = 1
                      /\ events[i].out = <<65536 + (h - 55296) * 1024 + (l - 56320)>>
                      /\ events[i].c.buf = <<>>

\* C28 witness: DBFF DFFF has been decoded to U+10FFFF
C28_Witness ==
    /\ run.task = "utf16"
    /\ run.data = <<56319, 57343>>
    /\ Finished
    /\ yielded = <<RetOk(1114111), RetNone>>

\* C29: with a high surrogate pending, a unit that is not a low surrogate is a
\* decode error, emits nothing and clears the pending unit; with nothing
\* pending, a unit that is no surrogate emits the character of that code point
\* and is never an error.
C29_UnpairedUnits ==
    run.task = "utf16" =>
        \A i \in EvIdx :
            /\ (PairedUnit(i) /\ ~LowSurrogate(events[i].item)) =>
                  /\ ~events[i].ok
                  /\ events[i].err = UTF16EncodingError
                  /\ events[i].out = <<>>
                  /\ events[i].c.buf = <<>>
            /\ (FreshUnit(i) /\ ~HighSurrogate(events[i].item)
                    /\ ~LowSurrogate(events[i].item)) =>
                  /\ events[i].ok /\ events[i].n = 1
                  /\ events[i].out = <<events[i].item>>
                  /\ events[i].c.buf = <<>>

\* C29 witness: D834 and then another high surrogate DBFF: the second unit was
\* refused and nothing is pending, so the run ends with None
C29_Witness ==
    /\ run.task = "utf16"
    /\ run.data = <<55348, 56319>>
    /\ Finished
    /\ yielded = <<RetErr(Conversion(UTF16EncodingError)), RetNone>>
    /\ conv.buf = <<>>

\* event i is a convert of a byte-oriented UTF-32 decoder
GroupByte(i) ==
    /\ IsConvert(events[i])
    /\ ConvBefore(i).kind \in {"UTF32BEDecoder", "UTF32LEDecoder"}

\* the 32-bit value of the four bytes of run.data that end at place p
GroupValue(p) ==
    LET d == run.data
    IN  IF run.decoder.kind = "UTF32BEDecoder"
        THEN d[p - 3] * 16777216 + d[p - 2] * 65536 + d[p - 1] * 256 + d[p]
        ELSE d[p] * 16777216 + d[p - 1] * 65536 + d[p - 2] * 256 + d[p - 3]

\* C31: UTF32BEDecoder and UTF32LEDecoder return Ok(0) for the first three
\* bytes of a group; the fourth byte decodes the group in the decoder's byte
\* order and emits one character exactly when the value is a Unicode scalar
\* value, else it is an error; either way no byte is pending afterwards; and
\* finalize fails exactly when 1 to 3 bytes are pending.
C31_Utf32Groups ==
    run.task = "utf32" =>
        \A i \in EvIdx :
            /\ (GroupByte(i) /\ ConvBefore(i).count < 3) =>
                  /\ events[i].ok /\ events[i].n = 0 /\ events[i].out = <<>>
                  /\ events[i].c.count = ConvBefore(i).count + 1
            /\ (GroupByte(i) /\ ConvBefore(i).count = 3) =>
                  LET p == ItemIndex(i)
                      v == GroupValue(p)
                  IN  /\ p % 4 = 0
                      /\ events[i].ok <=> ScalarValue(v)
                      /\ events[i].ok => events[i].n = 1 /\ events[i].out = <<v>>
                      /\ ~events[i].ok => events[i].out = <<>>
                      /\ events[i].c.count = 0
            /\ (IsFinalize(events[i])
                    /\ ConvBefore(i).kind \in {"UTF32BEDecoder", "UTF32LEDecoder"}) =>
                  (~events[i].ok <=> ConvBefore(i).count \in 1..3)

\* C31 witness: the little-endian decoder refused 00 D8 00 00 (U+D800), then
\* took one more byte, and the end of the source found that byte pending
C31_Witness ==
    /\ run.task = "utf32"
    /\ run.decoder.kind = "UTF32LEDecoder"
    /\ run.data = <<0, 216, 0, 0, 65>>
    /\ Finished
    /\ Len(yielded) = 2
    /\ yielded[1].tag = "Err"
    /\ yielded[2].tag = "Err"
    /\ pre.conv.count = 1

\* the outputs waiting in the buffer, as the items they will be yielded as
Waiting == [k \in 1..Len(buffer) |-> RetOk(buffer[k])]


\* the Ok and Err items among the given ones
IsItem(x) == x.tag # "None"
Items(xs) == SelectSeq(xs, IsItem)


\* C32: the Ok and Err items a driver has yielded, followed by what waits in
\* its buffer, are what the converter's calls produced, in the order they
\* produced it: the outputs each convert call appended in source order, each
\* error at the place of the item (or of the end of input) that caused it;
\* nothing twice, nothing moved, and nothing left in the buffer when the
\* items end.
C32_OrderPreserved ==
    run.task # "next" =>
        /\ Items(appended) = Items(yielded) \o Waiting
        /\ Finished => buffer = <<>>

\* C32 witness: sharp s and 'a' through to_uppercase: 'S', 'S' of the first
\* call and 'A' of the second, in that order, and then None
C32_Witness ==
    /\ run.task = "drive"
    /\ run.conv = IterConverter_new("to_uppercase")
    /\ run.data = <<223, 97>>
    /\ Finished
    /\ yielded = <<RetOk(83), RetOk(83), RetOk(65), RetNone>>
    /\ appended = yielded

\* what the synchronous driver of the same kind yields from the same
\* converter over the same items
SyncItems ==
    Collect(IF driver = "stream" THEN "iter" ELSE "tryiter", run.conv, AsSource(run.src))

\* C33: with a source that is never pending, the ready items of
\* ConvertedStream are the items of ConvertedIterator::next for the same
\* converter and items, one for one and ending alike; and likewise
\* ConvertedTryStream and ConvertedTryIterator.  A driver whose finalize
\* fails yields that error again on every later call; a collection is cut
\* after the first call that found the source exhausted, so there the
\* iterator's items may go on with repetitions of that same error.
C33_StreamAsIterator ==
    (run.task # "next" /\ Async(driver) /\ Finished) =>
        \A sync \in {SyncItems} :
            /\ Len(yielded) <= Len(sync)
            /\ \A i \in 1..Len(yielded) : yielded[i] = sync[i]
            /\ \/ Len(yielded) = Len(sync)
               \/ /\ ret.tag = "Err"
                  /\ IsFinalize(events[Len(events)])
                  /\ \A i \in (Len(yielded) + 1)..Len(sync) : sync[i] = ret

\* C33 witness: the stream over UTF16Decoder took D834 (Ok(0), no ready
\* item), then DD1E, then a lone DD1E, and yielded what the iterator yields
C33_Witness ==
    /\ driver = "stream"
    /\ run.task = "drive"
    /\ run.conv = UTF16Decoder_new
    /\ run.data = <<55348, 56606, 56606>>
    /\ Finished
    /\ yielded = <<RetOk(119070), RetErr(UTF16EncodingError), RetNone>>
    /\ yielded = SyncItems

-----------------------------------------------------------------------------
(* Properties of the repeated calls (specification Repeated) *)

\* C34: a synchronous driver over a finite source, called again and again,
\* eventually returns None, also when finalize fails at the end of input.
C34_SyncDriverTerminates == <>(Sync(driver) => ret = RetNone)

\* C38: under an executor that polls only after a wake-up, a poll of an
\* asynchronous driver that returned Poll::Pending is followed by a poll that
\* returns something ready: the driver never stalls on Poll::Pending.
C38_PendingIsWoken == (Async(driver) /\ ret = RetPending) ~> (ret # RetPending)

-----------------------------------------------------------------------------
(* Properties of the decoder fed raw bytes (specification Decoding) *)

\* C35: every character UTF8Decoder emits is a Unicode scalar value: never a
\* surrogate (0xD800..=0xDFFF), never above 0x10FFFF, whatever the bytes.
C35_EmitsScalars ==
    \A i \in 1..Len(events) :
        events[i].op = "convert" =>
            \A k \in 1..Len(events[i].out) : ScalarValue(events[i].out[k])

\* C40: after any sequence of convert and finalize calls, failing ones
\* included, the pending count of UTF32BEDecoder and UTF32LEDecoder is in
\* 0..=3, an index of the 4-byte array, and the count of continuation bytes
\* UTF8Decoder waits for is in 0..=3: it never goes below 0.
C40_BookkeepingInRange ==
    /\ conv.kind \in {"UTF32BEDecoder", "UTF32LEDecoder"} =>
          (conv.count \in 0..3 /\ Len(conv.bytes) = 4)
    /\ conv.kind = "UTF8Decoder" => conv.remain \in 0..3

\* C40 witness: a continuation byte was refused while three were awaited,
\* and finalize then failed with two still awaited
C40_Witness ==
    /\ conv.kind = "UTF8Decoder"
    /\ conv.remain = 2
    /\ ret = RetErr(UTF8EncodingError)
    /\ IsFinalize(events[1])
    /\ pre.ret = RetErr(UTF8EncodingError)
    /\ pre.conv.remain = 2

====
